---- MODULE Spec2Model ----
(***************************************************************************)
(* A model of languasaurus: the character-set algebra (charsets.ts), the   *)
(* automaton engine (automata.ts), the regular expressions (regex.ts),     *)
(* the text input stream (streams.ts) and the scanner's longest-match      *)
(* loop (scanning.ts).                                                     *)
(*                                                                         *)
(* Characters are code units 0..AlphabetMax; strings are sequences of      *)
(* code units.  A CharSet is its sequence of ranges [min, max].  A State   *)
(* is a record [recognizables, transitions]; states are referenced by      *)
(* identity in the code and by their index in a sequence of states (a      *)
(* heap) here.  An Automaton is the sequence of its states, the start      *)
(* state first, with transition targets indexing that sequence.  Indexes   *)
(* are 1-based here and 0-based in the code.                               *)
(***************************************************************************)
EXTENDS Integers, Sequences, FiniteSets, TLC

(***************************************************************************)
(* Bounds of the model                                                     *)
(***************************************************************************)
AlphabetMin == 0
\* alphabet.max is 0xFFFF in the code; the model's alphabet is 0..AlphabetMax
AlphabetMax == 2
\* longest input text of a scan
MaxLen == 3

Chars == AlphabetMin..AlphabetMax

\* TLC computes the value of an argument where it is first used.  After(v, r)
\* is r, with v computed in full before r is: the steps of a composition are
\* then computed one after the other, each once.
After(v, r) == IF v = v THEN r ELSE r

\* Let(v, LAMBDA x : e) is e with x standing for v, v computed in full first
Let(v, F(_)) == IF v = v THEN F(v) ELSE v

(***************************************************************************)
(* utils.ts                                                                *)
(***************************************************************************)
Min2(a, b) == IF a <= b THEN a ELSE b

InSeq(x, s) == \E i \in 1..Len(s) : s[i] = x

\* position of the first occurrence of x in s (Array.indexOf, 1-based), 0 if none
IndexOf(x, s) ==
    IF InSeq(x, s) THEN CHOOSE i \in 1..Len(s) : s[i] = x /\ \A j \in 1..(i - 1) : s[j] # x
    ELSE 0

\* the k-th smallest element of a set of numbers
Nth(S, k) == CHOOSE x \in S : Cardinality({y \in S : y < x}) = k - 1

\* the elements of a set of numbers in ascending order
SetToSortedSeq(S) == [k \in 1..Cardinality(S) |-> Nth(S, k)]

numberComparator(v1, v2) == v1 - v2

compareLimits(l1, l2) ==
    IF l1.value < l2.value THEN -1
    ELSE IF l1.value > l2.value THEN 1
    ELSE IF ~l1.upper /\ l2.upper THEN -1
    ELSE IF l1.upper /\ ~l2.upper THEN 1
    ELSE 0

rangeComparator(r1, r2) == IF r1.min # r2.min THEN r1.min - r2.min ELSE r1.max - r2.max

\* the comparators the code sorts and groups with, by name; "numbers" and
\* "charSet" are utils.arrayComparator of "number" and "range", "indexedLimit"
\* is utils.comparing(l => l.value, compareLimits), "key:c" compares pairs by
\* their key with c
RECURSIVE compare(_, _, _)
arrayComparator(cmp, array1, array2) ==
    Let({i \in 1..Min2(Len(array1), Len(array2)) : compare(cmp, array1[i], array2[i]) # 0},
        LAMBDA diffs :
            IF diffs # {}
            THEN Let(CHOOSE k \in diffs : \A j \in diffs : k <= j,
                     LAMBDA i : compare(cmp, array1[i], array2[i]))
            ELSE Len(array1) - Len(array2))
compare(cmp, a, b) ==
    CASE cmp = "number"       -> numberComparator(a, b)
      [] cmp = "limit"        -> compareLimits(a, b)
      [] cmp = "indexedLimit" -> compareLimits(a.value, b.value)
      [] cmp = "range"        -> rangeComparator(a, b)
      [] cmp = "numbers"      -> arrayComparator("number", a, b)
      [] cmp = "charSet"      -> arrayComparator("range", a, b)
      [] cmp = "key:numbers"  -> arrayComparator("number", a.key, b.key)
      [] cmp = "key:charSet"  -> arrayComparator("range", a.key, b.key)
      [] cmp = "key:number"   -> numberComparator(a.key, b.key)

numbersComparator(a1, a2) == compare("numbers", a1, a2)

charSetComparator(set1, set2) == compare("charSet", set1, set2)

\* Array.prototype.sort(comparator), a stable sort: an element comes after
\* the elements that compare lower and the earlier elements that compare equal
Sort(s, cmp) ==
    After(s,
          LET rank(i) == Cardinality({j \in 1..Len(s) :
                              \/ compare(cmp, s[j], s[i]) < 0
                              \/ compare(cmp, s[j], s[i]) = 0 /\ j < i})
          IN  [k \in 1..Len(s) |-> s[CHOOSE i \in 1..Len(s) : rank(i) = k - 1]])

\* utils.unique: the first occurrence of every value, in order
unique(values) ==
    After(values,
          LET firsts == {i \in 1..Len(values) : \A j \in 1..(i - 1) : values[j] # values[i]}
          IN  [k \in 1..Cardinality(firsts) |-> values[Nth(firsts, k)]])

\* utils.flatten: the elements of the arrays of an array, in order
flatten(array) ==
    After(array,
          LET positions == UNION {{<<i, j>> : j \in 1..Len(array[i])} : i \in 1..Len(array)}
              precedes(p, q) == p[1] < q[1] \/ (p[1] = q[1] /\ p[2] < q[2])
              at(k) == CHOOSE q \in positions :
                          Cardinality({p \in positions : precedes(p, q)}) = k - 1
          IN  [k \in 1..Cardinality(positions) |-> array[at(k)[1]][at(k)[2]]])

\* utils.group: utils.aggregate with the reducer append.  The items are
\* sorted by key (stable); consecutive items of equal key make one pair,
\* which has the key of the last of them and their values in order
\* the last index of the run of sorted items that begins at index i, where
\* firsts are the indexes at which the runs begin
lastOfRun(firsts, i, length) ==
    IF \E j \in firsts : j > i
    THEN (CHOOSE j \in firsts : j > i /\ \A m \in firsts : m > i => j <= m) - 1
    ELSE length

group(pairs, keyCmp) ==
    Let(Sort(pairs, keyCmp), LAMBDA sorted :
    Let({i \in 1..Len(sorted) : i = 1 \/ compare(keyCmp, sorted[i - 1], sorted[i]) # 0},
        LAMBDA firsts :
            [k \in 1..Cardinality(firsts) |->
                Let(Nth(firsts, k), LAMBDA first :
                Let(lastOfRun(firsts, first, Len(sorted)), LAMBDA last :
                    [key |-> sorted[last].key,
                     value |-> [m \in 1..(last - first + 1) |-> sorted[first + m - 1].value]]))]))

\* utils.distinct over numbers: sorted, duplicates dropped
distinctNumbers(ids) ==
    Let(group([i \in 1..Len(ids) |-> [key |-> ids[i], value |-> ids[i]]], "key:number"),
        LAMBDA g : [i \in 1..Len(g) |-> g[i].key])

\* a removeFirst that removes nothing
removeNothing(toRemove, array) == array

\* utils.removeFirst
removeFirst(toRemove, array) ==
    Let(IndexOf(toRemove, array), LAMBDA index :
        IF index = 0 THEN array
        ELSE SubSeq(array, 1, index - 1) \o SubSeq(array, index + 1, Len(array)))

(***************************************************************************)
(* charsets.ts                                                             *)
(***************************************************************************)
\* CharRange.of: a backward range is swapped
CharRangeOf(min, max) == IF min <= max THEN [min |-> min, max |-> max]
                                       ELSE [min |-> max, max |-> min]

\* range(min, max): the set of one range
range(min, max) == <<CharRangeOf(min, max)>>

char(c) == range(c, c)

\* CharSet.contains (CharRange.contains, Union.contains)
contains(set, c) == \E i \in 1..Len(set) : set[i].min <= c /\ c <= set[i].max

rangeLimits(r) == <<[value |-> r.min, upper |-> FALSE], [value |-> r.max, upper |-> TRUE]>>

limitsOfRanges(ranges) == flatten([i \in 1..Len(ranges) |-> rangeLimits(ranges[i])])

limitsOfSets(sets) == flatten([i \in 1..Len(sets) |-> limitsOfRanges(sets[i])])

\* an addRange that never extends the last range
pushRange(ranges, lowerLimit, upperLimit) ==
    Append(ranges, CharRangeOf(lowerLimit, upperLimit))

\* addRange: a range that begins right after the last one extends it
addRange(ranges, lowerLimit, upperLimit) ==
    IF Len(ranges) > 0
    THEN Let(ranges[Len(ranges)], LAMBDA lastRange :
             IF lowerLimit = lastRange.max + 1
             THEN SubSeq(ranges, 1, Len(ranges) - 1) \o <<CharRangeOf(lastRange.min, upperLimit)>>
             ELSE Append(ranges, CharRangeOf(lowerLimit, upperLimit)))
    ELSE <<CharRangeOf(lowerLimit, upperLimit)>>

\* the loop of charSet(limits): one range per maximal stretch of nesting
\* level > 0
RECURSIVE charSetSweep(_, _, _, _, _)
charSetSweep(sortedLimits, i, ranges, nestingLevel, lastLowerLimit) ==
    IF i > Len(sortedLimits)
    THEN IF nestingLevel > 0 THEN addRange(ranges, lastLowerLimit, AlphabetMax) ELSE ranges
    ELSE Let(sortedLimits[i], LAMBDA limit :
         Let(IF limit.upper /\ nestingLevel - 1 = 0
             THEN addRange(ranges, lastLowerLimit, limit.value)
             ELSE ranges,
             LAMBDA added :
                 charSetSweep(sortedLimits, i + 1, added,
                              IF limit.upper THEN nestingLevel - 1 ELSE nestingLevel + 1,
                              IF ~limit.upper /\ nestingLevel = 0 THEN limit.value
                                                                  ELSE lastLowerLimit)))

charSet(limits) ==
    Let(Sort(limits, "limit"),
        LAMBDA sortedLimits : charSetSweep(sortedLimits, 1, <<>>, 0, AlphabetMin))

\* union(...sets)
union(sets) == After(sets, charSet(limitsOfSets(sets)))

\* the loop of computeOverlaps(...sets) over the sorted limits; ids lists the
\* sets the sweep is inside of
RECURSIVE overlapSweep(_, _, _, _, _)
overlapSweep(limits, i, result, ids, lastLimit) ==
    IF i > Len(limits) THEN result
    ELSE Let(limits[i], LAMBDA limit :
         Let(compareLimits(limit.value, lastLimit) > 0 /\ Len(ids) > 0, LAMBDA emit :
         \* distinctNumbers(ids) sorts ids in place
         Let(IF emit THEN Sort(ids, "number") ELSE ids, LAMBDA sortedIds :
         Let(IF emit
             THEN Append(result,
                     [key |-> distinctNumbers(ids),
                      value |-> range(
                         IF lastLimit.upper THEN lastLimit.value + 1 ELSE lastLimit.value,
                         IF limit.value.upper THEN limit.value.value
                                              ELSE limit.value.value - 1)])
             ELSE result,
             LAMBDA pushed :
         Let(IF limit.value.upper THEN removeFirst(limit.key, sortedIds)
                                  ELSE Append(sortedIds, limit.key),
             LAMBDA nextIds : overlapSweep(limits, i + 1, pushed, nextIds, limit.value))))))

indexedLimits(sets) ==
    flatten([i \in 1..Len(sets) |->
        Let(limitsOfRanges(sets[i]), LAMBDA limits :
            [j \in 1..Len(limits) |-> [key |-> i, value |-> limits[j]]])])

\* computeOverlaps(...sets)
computeOverlaps(sets) ==
    Let(Sort(indexedLimits(sets), "indexedLimit"), LAMBDA limits :
    Let(overlapSweep(limits, 1, <<>>, <<>>, [value |-> -1, upper |-> TRUE]), LAMBDA result :
    Let(group(result, "key:numbers"), LAMBDA aggregatedResult :
        [i \in 1..Len(aggregatedResult) |->
            [key |-> aggregatedResult[i].key, value |-> union(aggregatedResult[i].value)]])))
(***************************************************************************)
(* automata.ts: State and Transition                                       *)
(***************************************************************************)
\* State.create(...recognizables)
state(recognizables) == [recognizables |-> unique(recognizables), transitions |-> <<>>]

isFinal(s) == Len(s.recognizables) > 0

isTransient(s) == ~isFinal(s)

\* State.on(trigger, target, optimized)
on(s, trigger, target, optimized) ==
    Let({i \in 1..Len(s.transitions) : s.transitions[i].target = target}, LAMBDA hits :
        IF ~optimized \/ hits = {}
        THEN [s EXCEPT !.transitions = Append(@, [trigger |-> trigger, target |-> target])]
        ELSE Let(CHOOSE k \in hits : \A j \in hits : k <= j, LAMBDA index :
                 [s EXCEPT !.transitions[index] =
                     [trigger |-> union(<<@.trigger, trigger>>), target |-> target]]))

\* the transitions State.reorganizeTriggerOverlaps adds: for every overlap,
\* for every range of it, one transition per target of the overlap
overlapTransitions(overlaps, targets) ==
    flatten([o \in 1..Len(overlaps) |->
        flatten([r \in 1..Len(overlaps[o].value) |->
            [k \in 1..Len(overlaps[o].key) |->
                [trigger |-> range(overlaps[o].value[r].min, overlaps[o].value[r].max),
                 target |-> targets[overlaps[o].key[k]]]]])])

\* State.reorganizeTriggerOverlaps
reorganizeTriggerOverlaps(s) ==
    Let([i \in 1..Len(s.transitions) |-> s.transitions[i].trigger], LAMBDA triggers :
    Let([i \in 1..Len(s.transitions) |-> s.transitions[i].target], LAMBDA targets :
    Let(computeOverlaps(triggers), LAMBDA overlaps :
    Let(overlapTransitions(overlaps, targets), LAMBDA transitions :
        [s EXCEPT !.transitions = transitions]))))

identical(set1, set2) == charSetComparator(set1, set2) = 0

\* Transition.identicalTo
transitionIdenticalTo(t1, t2) == t1.target = t2.target /\ identical(t1.trigger, t2.trigger)

\* State.identicalTo, of the states at indexes this and that of one automaton
identicalTo(a, this, that) ==
    \/ this = that
    \/ /\ Len(a[this].recognizables) = Len(a[that].recognizables)
       /\ \A i \in 1..Len(a[this].recognizables) :
              InSeq(a[this].recognizables[i], a[that].recognizables)
       /\ Len(a[this].transitions) = Len(a[that].transitions)
       /\ \A i \in 1..Len(a[this].transitions) :
              \E j \in 1..Len(a[that].transitions) :
                  transitionIdenticalTo(a[this].transitions[i], a[that].transitions[j])

(***************************************************************************)
(* automata.ts: Automaton                                                  *)
(***************************************************************************)
\* Automaton.doTraverse: depth first, a state before its targets; visited is
\* the sequence of the heap indexes consumed so far
RECURSIVE doTraverse(_, _, _), traverseTargets(_, _, _, _)
doTraverse(heap, s, visited) ==
    IF InSeq(s, visited) THEN visited
    ELSE traverseTargets(heap, heap[s].transitions, 1, Append(visited, s))
traverseTargets(heap, ts, k, visited) ==
    IF k > Len(ts) THEN visited
    ELSE Let(doTraverse(heap, ts[k].target, visited),
             LAMBDA consumed : traverseTargets(heap, ts, k + 1, consumed))

allStatesFrom(heap, start) == After(heap, doTraverse(heap, start, <<>>))

\* new Automaton(states): the states, each once, in the given order; a
\* transition's target is named by its position in that order
Automaton(heap, states) ==
    Let(unique(states), LAMBDA order :
        [i \in 1..Len(order) |->
            [recognizables |-> heap[order[i]].recognizables,
             transitions |-> [t \in 1..Len(heap[order[i]].transitions) |->
                [trigger |-> heap[order[i]].transitions[t].trigger,
                 target |-> IndexOf(heap[order[i]].transitions[t].target, order)]]]])

\* Automaton.create(start)
create(heap, start) ==
    Let(heap, LAMBDA objects :
    Let(allStatesFrom(objects, start), LAMBDA states : Automaton(objects, states)))

isOptional(a) == isFinal(a[1])

\* the indexes of _finalStates
finalStates(a) == {i \in 1..Len(a) : isFinal(a[i])}

\* all the transitions of an automaton, as (source, trigger, target), in the
\* order the second loop of mapStates copies them
AllTransitions(a) ==
    flatten([i \in 1..Len(a) |->
        [t \in 1..Len(a[i].transitions) |->
            [source |-> i, trigger |-> a[i].transitions[t].trigger,
             target |-> a[i].transitions[t].target]]])

\* the second loop of mapStates: clone.on(trigger, mappedStates[index]) for
\* every transition; obj[i] names the mapped state of state i
RECURSIVE AddTransitions(_, _, _, _)
AddTransitions(heap, ts, k, obj) ==
    IF k > Len(ts) THEN heap
    ELSE Let([heap EXCEPT ![obj[ts[k].source]] = on(@, ts[k].trigger, obj[ts[k].target], TRUE)],
             LAMBDA added : AddTransitions(added, ts, k + 1, obj))

\* Automaton.mapStates(stateMapper).  The mapper's result for state i is the
\* object named obj[i] (states that map to one shared object have the same
\* name), created with the recognizables recs[obj[i]].
mapStates(a, obj, recs) ==
    Let([i \in 1..Len(a) |-> state(recs[i])], LAMBDA mappedStates :
    Let(AllTransitions(a), LAMBDA transitions :
    Let(AddTransitions(mappedStates, transitions, 1, obj), LAMBDA heap :
        Automaton(heap, obj))))

Identity(a) == [i \in 1..Len(a) |-> i]

\* Automaton.clone() with the default cloner Automaton.state
clone(a) ==
    Let(a, LAMBDA this :
        mapStates(this, Identity(this), [i \in 1..Len(this) |-> this[i].recognizables]))

\* Automaton.map(mapper) with a mapper that returns tag for every recognizable
map(a, tag) ==
    Let(a, LAMBDA this :
        mapStates(this, Identity(this),
                  [i \in 1..Len(this) |-> [k \in 1..Len(this[i].recognizables) |-> tag]]))

\* Automaton.reorganizeTriggerOverlaps: rewrites the transitions of every
\* state of this automaton in place
reorganizeAll(a) ==
    Let(a, LAMBDA this : [i \in 1..Len(this) |-> reorganizeTriggerOverlaps(this[i])])

\* the cloner of Automaton.cloneNoShallowDuplicates: a state identical to an
\* earlier visited state shares that state's clone
RECURSIVE shallowCloner(_, _, _, _)
shallowCloner(a, i, visitedStates, obj) ==
    IF i > Len(a) THEN obj
    ELSE Let({k \in 1..Len(visitedStates) : identicalTo(a, visitedStates[k], i)}, LAMBDA hits :
             IF hits = {}
             THEN shallowCloner(a, i + 1, Append(visitedStates, i), Append(obj, i))
             ELSE shallowCloner(a, i + 1, visitedStates,
                      Append(obj, visitedStates[CHOOSE k \in hits : \A j \in hits : k <= j])))

\* Automaton.cloneNoShallowDuplicates
cloneNoShallowDuplicates(a) ==
    Let(a, LAMBDA this :
    Let(shallowCloner(this, 1, <<>>, <<>>), LAMBDA obj :
        mapStates(this, obj, [i \in 1..Len(this) |-> this[i].recognizables])))

\* the loop of Automaton.cloneNoDuplicates
RECURSIVE dedupeLoop(_, _)
dedupeLoop(automaton, oldSize) ==
    IF Len(automaton) < oldSize
    THEN Let(cloneNoShallowDuplicates(reorganizeAll(automaton)),
             LAMBDA next : dedupeLoop(next, Len(automaton)))
    ELSE automaton

\* Automaton.cloneNoDuplicates
cloneNoDuplicates(a) ==
    Let(a, LAMBDA this :
    Let(cloneNoShallowDuplicates(reorganizeAll(this)),
        LAMBDA automaton : dedupeLoop(automaton, Len(this))))

(***************************************************************************)
(* automata.ts: ClosureState                                               *)
(***************************************************************************)
\* ClosureState.nonOverlappingTransitions of the states at stateIndexes
nonOverlappingTransitions(a, stateIndexes) ==
    Let(flatten([k \in 1..Len(stateIndexes) |-> a[stateIndexes[k]].transitions]),
        LAMBDA transitions :
            reorganizeTriggerOverlaps([recognizables |-> <<>>,
                                       transitions |-> transitions]).transitions)

\* the constructor of ClosureState: the union of the members' recognizables
closureRecognizables(a, stateIndexes) ==
    unique(flatten([k \in 1..Len(stateIndexes) |-> a[stateIndexes[k]].recognizables]))

groupedTransitions(a, stateIndexes) ==
    Let(nonOverlappingTransitions(a, stateIndexes), LAMBDA transitions :
        group([t \in 1..Len(transitions) |->
                  [key |-> transitions[t].trigger, value |-> transitions[t].target]],
              "key:charSet"))

\* the stateIndexes of a closure in the order they are given
closureKeyUnsorted(stateIndexes) == unique(stateIndexes)

\* utils.unique(stateIndexes).sort(): the stateIndexes of a new ClosureState
closureKey(stateIndexes) == Sort(unique(stateIndexes), "number")

\* ClosureState.enclose and ClosureState.init.  cl.keys is the list closures
\* (the stateIndexes of every closure made so far), cl.heap the closure states.
\* The result is the updated cl and the closure's position in it.  The
\* stateIndexes are sorted by Array.sort() (as strings), which for the
\* indexes below 10 of the model is the numeric order.
RECURSIVE enclose(_, _, _), init(_, _, _, _, _)
enclose(a, stateIndexes, cl) ==
    Let(closureKey(stateIndexes), LAMBDA key :
    Let(IndexOf(key, cl.keys), LAMBDA found :
        IF found # 0 THEN [cl |-> cl, closure |-> found]
        ELSE Let(groupedTransitions(a, key), LAMBDA grouped :
             Let([keys |-> Append(cl.keys, key),
                  heap |-> Append(cl.heap, state(closureRecognizables(a, key)))],
                 LAMBDA pushed : init(a, Len(cl.keys) + 1, grouped, 1, pushed)))))
init(a, closure, grouped, k, cl) ==
    IF k > Len(grouped) THEN [cl |-> cl, closure |-> closure]
    ELSE Let(enclose(a, grouped[k].value, cl), LAMBDA r :
         Let([keys |-> r.cl.keys,
              heap |-> [r.cl.heap EXCEPT ![closure] = on(@, grouped[k].key, r.closure, TRUE)]],
             LAMBDA next : init(a, closure, grouped, k + 1, next)))

\* ClosureState.startStateOf(automaton): the heap of closure states, the
\* start closure first
startStateOf(a) ==
    Let(a, LAMBDA automaton : enclose(automaton, <<1>>, [keys |-> <<>>, heap |-> <<>>]).cl.heap)

\* Automaton.deterministic
deterministic(a) ==
    Let(cloneNoDuplicates(a), LAMBDA ndf :
    Let(create(startStateOf(ndf), 1), LAMBDA df : cloneNoDuplicates(df)))

(***************************************************************************)
(* automata.ts: composition                                                *)
(***************************************************************************)
\* the states of automaton a as a block of a heap that begins after offset
Block(a, offset) ==
    [i \in 1..Len(a) |->
        [recognizables |-> a[i].recognizables,
         transitions |-> [t \in 1..Len(a[i].transitions) |->
            [trigger |-> a[i].transitions[t].trigger,
             target |-> a[i].transitions[t].target + offset]]]]

\* for (transition of from.transitions) to.on(transition.trigger, transition.target)
RECURSIVE CopyInto(_, _, _, _)
CopyInto(heap, ts, t, to) ==
    IF t > Len(ts) THEN heap
    ELSE Let([heap EXCEPT ![to] = on(@, ts[t].trigger, ts[t].target, TRUE)],
             LAMBDA copied : CopyInto(copied, ts, t + 1, to))

\* the same for every state to of tos, in order
RECURSIVE CopyTransitions(_, _, _, _)
CopyTransitions(heap, from, tos, k) ==
    IF k > Len(tos) THEN heap
    ELSE Let(CopyInto(heap, heap[from].transitions, 1, tos[k]),
             LAMBDA copied : CopyTransitions(copied, from, tos, k + 1))

\* a start state that takes no recognizables from the states it stands for
transientState(recognizablesOfStates) == state(<<>>)

\* Automaton.unionState(states)
unionState(recognizablesOfStates) == state(flatten(recognizablesOfStates))

\* an optional() that makes the start state final where it is, without a new
\* start state
optionalInPlace(a) ==
    IF isOptional(a) THEN a
    ELSE [a EXCEPT ![1].recognizables =
             flatten([k \in 1..Len(a) |-> a[k].recognizables])]

\* Automaton.optional
optional(a) ==
    Let(a, LAMBDA this :
        IF isOptional(this) THEN this
        ELSE Let(SetToSortedSeq(finalStates(this)), LAMBDA finals :
             Let(unionState([k \in 1..Len(finals) |-> this[finals[k]].recognizables]),
                 LAMBDA newStartState :
             Let(clone(this), LAMBDA clonedAutomaton :
                 create(CopyTransitions(<<newStartState>> \o Block(clonedAutomaton, 1),
                                        2, <<1>>, 1),
                        1)))))

\* a repeated() that gives the final states no way back into the automaton
repeatedOnce(a) == clone(a)

\* Automaton.repeated
repeated(a) ==
    Let(clone(a), LAMBDA draft :
        create(CopyTransitions(draft, 1, SetToSortedSeq(finalStates(draft)), 1), 1))

\* the loop of Automaton.choice: every operand's clone is added to the heap
\* and its start transitions are copied into the new start state
RECURSIVE choiceLoop(_, _, _)
choiceLoop(heap, automata, k) ==
    IF k > Len(automata) THEN heap
    ELSE Let(clone(automata[k]), LAMBDA c :
         Let(CopyTransitions(heap \o Block(c, Len(heap)), Len(heap) + 1, <<1>>, 1),
             LAMBDA copied : choiceLoop(copied, automata, k + 1)))

\* Automaton.choice(automaton, ...automata)
choice(automata) ==
    Let(automata, LAMBDA operands :
    Let(unionState([k \in 1..Len(operands) |-> operands[k][1].recognizables]),
        LAMBDA startState : create(choiceLoop(<<startState>>, operands, 1), 1)))

\* Automaton.append(automaton, prevStates, optional): the clone's states are
\* added to the heap, the clone's start transitions copied into prevStates;
\* the result is the heap and nextStates
append(heap, automaton, prevStates, isTail) ==
    Let(Len(heap), LAMBDA offset :
    Let(mapStates(automaton, Identity(automaton),
                  [i \in 1..Len(automaton) |->
                      IF isTail THEN automaton[i].recognizables ELSE <<>>]),
        LAMBDA clonedAutomaton :
    Let(SetToSortedSeq(finalStates(automaton)), LAMBDA finals :
        [heap |-> CopyTransitions(heap \o Block(clonedAutomaton, offset), offset + 1,
                                  prevStates, 1),
         nextStates |-> (IF isOptional(automaton) THEN prevStates ELSE <<>>)
                        \o [k \in 1..Len(finals) |-> finals[k] + offset]])))

\* the index of the first operand that is not optional, 0 when every operand
\* is optional
firstNonOptional(automata) ==
    Let({i \in 1..Len(automata) : ~isOptional(automata[i])}, LAMBDA nonOptional :
        IF nonOptional = {} THEN 0
        ELSE CHOOSE i \in nonOptional : \A j \in nonOptional : i <= j)

\* the index of the last operand that is not optional, 0 (the code's -1)
\* when every operand is optional
lastNonOptional(automata) ==
    Let({i \in 1..Len(automata) : ~isOptional(automata[i])}, LAMBDA nonOptional :
        IF nonOptional = {} THEN 0
        ELSE CHOOSE i \in nonOptional : \A j \in nonOptional : j <= i)

\* the loop of Automaton.concat
RECURSIVE concatLoop(_, _, _, _)
concatLoop(heap, jointStates, automata, i) ==
    IF i > Len(automata) THEN heap
    ELSE Let(append(heap, automata[i], jointStates, i >= lastNonOptional(automata)),
             LAMBDA r : concatLoop(r.heap, r.nextStates, automata, i + 1))

\* Automaton.concat(automaton, ...automata)
concat(automata) ==
    Let(automata, LAMBDA operands :
    Let(IF lastNonOptional(operands) = 0 THEN state(operands[1][1].recognizables)
                                         ELSE state(<<>>),
        LAMBDA startState : create(concatLoop(<<startState>>, <<1>>, operands, 1), 1)))

(***************************************************************************)
(* automata.ts: AutomatonMathcer                                           *)
(***************************************************************************)
\* new AutomatonMathcer(start), and reset()
newMatcher(a) == [current |-> 1, lastRecognized |-> a[1].recognizables,
                  recognized |-> a[1].recognizables]

\* the transitions of the current state that fire on char c
Firing(a, m, c) ==
    {t \in 1..Len(a[m.current].transitions) : contains(a[m.current].transitions[t].trigger, c)}

\* what match(char) returns: whether a transition fired
doesMatch(a, m, c) == Firing(a, m, c) # {}

\* transitionTo that forgets the last recognizables at a transient state
transitionToForgetful(a, m, nextState) ==
    [current |-> nextState,
     recognized |-> a[nextState].recognizables,
     lastRecognized |-> a[nextState].recognizables]

\* AutomatonMathcer.transitionTo
transitionTo(a, m, nextState) ==
    [current |-> nextState,
     recognized |-> a[nextState].recognizables,
     lastRecognized |-> IF Len(a[nextState].recognizables) > 0
                        THEN a[nextState].recognizables ELSE m.lastRecognized]

\* match(char) that resets the matcher when no transition fires
matchOrReset(a, m, c) ==
    Let(Firing(a, m, c), LAMBDA firing :
        IF firing # {}
        THEN transitionTo(a, m, a[m.current].transitions[
                                    CHOOSE k \in firing : \A j \in firing : k <= j].target)
        ELSE newMatcher(a))

\* the matcher after match(char): the first transition that fires is taken
match(a, m, c) ==
    Let(Firing(a, m, c), LAMBDA firing :
        IF firing # {}
        THEN transitionTo(a, m, a[m.current].transitions[
                                    CHOOSE k \in firing : \A j \in firing : k <= j].target)
        ELSE m)

(***************************************************************************)
(* regex.ts: a RegEx is modelled by its _automaton; the accept marker of   *)
(* a RegEx (true) is the tag Accept                                        *)
(***************************************************************************)
Accept == 0

\* RegEx.create(automaton)
RegExCreate(automaton) == deterministic(automaton)

\* the getter RegEx.automaton
regexAutomaton(r) == clone(r)

\* charIn(range): one transition from a new state to a new end state
charIn(min, max) ==
    RegExCreate(create(<<on(state(<<>>), range(min, max), 2, TRUE), state(<<Accept>>)>>, 1))

regexConcat(regexes) ==
    Let(regexes, LAMBDA rs : RegExCreate(concat([i \in 1..Len(rs) |-> regexAutomaton(rs[i])])))

regexChoice(regexes) ==
    Let(regexes, LAMBDA rs : RegExCreate(choice([i \in 1..Len(rs) |-> regexAutomaton(rs[i])])))

\* word(w), chars(cs): the concatenation of charIn(c) for the characters of w
word(w) == regexConcat([i \in 1..Len(w) |-> charIn(w[i], w[i])])

regexOptional(r) == RegExCreate(optional(r))

regexRepeated(r) == RegExCreate(repeated(r))

oneOrMore(r) == regexRepeated(r)

zeroOrMore(r) == regexOptional(regexRepeated(r))

(***************************************************************************)
(* streams.ts: TextInputStream                                             *)
(***************************************************************************)
\* '\n'.charCodeAt(0) and '\r'.charCodeAt(0)
NewLine == 10
CarriageReturn == 13

\* new TextInputStream(text)
TextInputStream(text) ==
    [text |-> text, index |-> 0, line |-> 1, column |-> 1, markedPositions |-> <<>>]

\* position() with the index counted from 1
positionFromOne(s) == [index |-> s.index + 1, line |-> s.line, column |-> s.column]

\* position()
position(s) == [index |-> s.index, line |-> s.line, column |-> s.column]

hasMoreSymbols(s) == s.index < Len(s.text)

\* the symbol readNextSymbol() returns
nextSymbol(s) == IF hasMoreSymbols(s) THEN s.text[s.index + 1] ELSE 0

\* consumeNextSymbol() that counts a carriage return as a column
consumeCountingReturns(s) ==
    LET symbol == s.text[s.index + 1]
    IN  [s EXCEPT !.index = @ + 1,
                  !.line = IF symbol = NewLine THEN @ + 1 ELSE @,
                  !.column = IF symbol = NewLine THEN 1 ELSE @ + 1]

\* consumeNextSymbol()
consumeNextSymbol(s) ==
    LET symbol == s.text[s.index + 1]
    IN  [s EXCEPT !.index = @ + 1,
                  !.line = IF symbol = NewLine THEN @ + 1 ELSE @,
                  !.column = IF symbol = NewLine THEN 1
                             ELSE IF symbol # CarriageReturn THEN @ + 1 ELSE @]

\* the stream after readNextSymbol()
readNextSymbol(s) == IF hasMoreSymbols(s) THEN consumeNextSymbol(s) ELSE s

\* mark()
mark(s) == [s EXCEPT !.markedPositions = Append(@, position(s))]

\* unmark() that drops the oldest mark
unmarkOldest(s) ==
    IF Len(s.markedPositions) > 0
    THEN [s EXCEPT !.markedPositions = Tail(@)]
    ELSE s

\* unmark()
unmark(s) ==
    IF Len(s.markedPositions) > 0
    THEN [s EXCEPT !.markedPositions = SubSeq(@, 1, Len(@) - 1)]
    ELSE s

\* reset() that drops the mark and stays where the stream is
resetInPlace(s) ==
    IF Len(s.markedPositions) > 0
    THEN [s EXCEPT !.markedPositions = SubSeq(@, 1, Len(@) - 1)]
    ELSE s

\* reset()
reset(s) ==
    IF Len(s.markedPositions) > 0
    THEN LET markedPosition == s.markedPositions[Len(s.markedPositions)]
         IN  [s EXCEPT !.markedPositions = SubSeq(@, 1, Len(@) - 1),
                       !.index = markedPosition.index,
                       !.line = markedPosition.line,
                       !.column = markedPosition.column]
    ELSE s

(***************************************************************************)
(* scanning.ts: Scanner                                                    *)
(***************************************************************************)
\* A declared token type is named by its index in Scanner.tokenTypes (the
\* TokenTypeWrapper's index); the two implicit token types of a scanner:
errorTokenType == 0
eofTokenType == -1

stateStart == 0
stateConsumingGoodChars == 1
stateRecognizing == 2
stateConsumingBadChars == 3

\* the lexeme of the EOF token, "EOF", as code units outside the alphabet
EOFLexeme == <<69, 79, 70>>

\* Scanner.tieBreak(tokensTypes)
tieBreak(tokensTypes) ==
    IF Len(tokensTypes) = 1 THEN tokensTypes[1]
    ELSE CHOOSE i \in {tokensTypes[k] : k \in 1..Len(tokensTypes)} :
            \A k \in 1..Len(tokensTypes) : i <= tokensTypes[k]

\* the getter Scanner.automaton, for the declared token types' patterns
scannerAutomaton(patterns) ==
    Let([i \in 1..Len(patterns) |-> map(regexAutomaton(patterns[i]), i)], LAMBDA automata :
    Let(deterministic(choice(automata)), LAMBDA a :
        mapStates(a, Identity(a),
                  [i \in 1..Len(a) |-> IF Len(a[i].recognizables) > 0
                                       THEN <<tieBreak(a[i].recognizables)>>
                                       ELSE <<>>])))

\* whether the look-ahead symbol is consumed, were bad characters never consumed
consumesMatchOnly(matches, scanState) == matches

\* the condition of ScanningMatcher.nextToken under which the look-ahead
\* symbol is consumed: a match, unless bad characters are being consumed
consumesLookAhead(matches, scanState) == matches # (scanState = stateConsumingBadChars)

\* recognizeConsumedChars that takes the consumed characters for the lexeme
recognizeLastChars(sm, s) ==
    [sm |-> [sm EXCEPT !.lexeme = sm.consumedChars, !.consumedChars = <<>>],
     stream |-> mark(unmark(s))]

\* recognizeConsumedChars that drops the mark and sets no new one
recognizeUnmarked(sm, s) ==
    [sm |-> [sm EXCEPT !.lexeme = @ \o sm.consumedChars, !.consumedChars = <<>>],
     stream |-> unmark(s)]

\* recognizeConsumedChars that drops the consumed characters
recognizeNothing(sm, s) ==
    [sm |-> [sm EXCEPT !.consumedChars = <<>>],
     stream |-> mark(unmark(s))]

\* recognizeConsumedChars that leaves the outer mark where the scan began
recognizeWithoutRemark(sm, s) ==
    [sm |-> [sm EXCEPT !.lexeme = @ \o sm.consumedChars, !.consumedChars = <<>>],
     stream |-> s]

\* ScanningMatcher.recognizeConsumedChars: the scan's fields and the stream
recognizeConsumedChars(sm, s) ==
    [sm |-> [sm EXCEPT !.lexeme = @ \o sm.consumedChars, !.consumedChars = <<>>],
     stream |-> mark(unmark(s))]

(***************************************************************************)
(* The scanners and the input texts of the model                           *)
(***************************************************************************)
\* the strings over the alphabet of length at most n
Strings(n) == UNION {[1..k -> Chars] : k \in 0..n}

\* the input texts
Texts == Strings(MaxLen)

\* The declarations of the token types' patterns, written as expressions of
\* the builders of regex.ts: an expression names the builder and gives its
\* character range and its operand expressions
CharInExpr(min, max) == [builder |-> "charIn", min |-> min, max |-> max, operands |-> <<>>]
WordExpr(w) == [builder |-> "concat", min |-> 0, max |-> 0,
            operands |-> [i \in 1..Len(w) |-> CharInExpr(w[i], w[i])]]
ConcatExpr(es) == [builder |-> "concat", min |-> 0, max |-> 0, operands |-> es]
ChoiceExpr(es) == [builder |-> "choice", min |-> 0, max |-> 0, operands |-> es]
OneOrMoreExpr(e) == [builder |-> "oneOrMore", min |-> 0, max |-> 0, operands |-> <<e>>]
ZeroOrMoreExpr(e) == [builder |-> "zeroOrMore", min |-> 0, max |-> 0, operands |-> <<e>>]

\* the RegEx that the builders make of an expression
RECURSIVE pattern(_)
pattern(e) ==
    CASE e.builder = "charIn" -> charIn(e.min, e.max)
      [] e.builder = "concat" ->
             regexConcat([i \in 1..Len(e.operands) |-> pattern(e.operands[i])])
      [] e.builder = "choice" ->
             regexChoice([i \in 1..Len(e.operands) |-> pattern(e.operands[i])])
      [] e.builder = "oneOrMore" -> oneOrMore(pattern(e.operands[1]))
      [] e.builder = "zeroOrMore" -> zeroOrMore(pattern(e.operands[1]))

\* keyword "01" declared before identifier [0-1]+
KeywordScanner == <<WordExpr(<<0, 1>>), OneOrMoreExpr(CharInExpr(0, 1))>>
\* operators "0" and "10"
OperatorScanner == <<WordExpr(<<0>>), WordExpr(<<1, 0>>)>>
\* comment 0 1* 2
CommentScanner == <<ConcatExpr(<<CharInExpr(0, 0), ZeroOrMoreExpr(CharInExpr(1, 1)), CharInExpr(2, 2)>>)>>
\* integer 0+ and float 0+ 1 0+
NumberScanner == <<OneOrMoreExpr(CharInExpr(0, 0)),
                   ConcatExpr(<<OneOrMoreExpr(CharInExpr(0, 0)), CharInExpr(1, 1), OneOrMoreExpr(CharInExpr(0, 0))>>)>>
\* keywords "0" and "012" in one token type
FunctionScanner == <<ChoiceExpr(<<WordExpr(<<0>>), WordExpr(<<0, 1, 2>>)>>)>>
\* a character, a range that holds it and the character next to it
RangeScanner == <<CharInExpr(1, 1), CharInExpr(0, 1), CharInExpr(0, 0)>>

\* the scanners: the token types declared, in order, each with its pattern
Scanners ==
    {[i \in 1..Len(declared) |-> pattern(declared[i])] :
        declared \in {KeywordScanner, OperatorScanner, CommentScanner, NumberScanner,
                      FunctionScanner, RangeScanner}}

(***************************************************************************)
(* State                                                                   *)
(***************************************************************************)
VARIABLES
    pc,           \* where the run is
    \* a scanner and one iterator of it
    tokenTypes,   \* Scanner.tokenTypes: the patterns of the declared token types
    automaton,    \* Scanner._automaton, <<>> for null
    stream,       \* the TextInputStream given to Scanner.iterator
    matcher,      \* the AutomatonMathcer of the iterator's ScanningMatcher
    scan,         \* the ScanningMatcher's lexeme, consumedChars and state
    startPos,     \* Scanner.next: position, taken before the scan
    tokens,       \* the tokens the iterator has yielded so far
    depth0,       \* history: the depth of the mark stack when the scan began
    emptyPops,    \* history: unmark() and reset() calls on an empty mark stack
    \* an automaton built state by state, and its deterministic automaton
    states,       \* the State objects made so far, the start state first
    nfa,          \* the Automaton created from them, <<>> before
    source,       \* history: nfa as it was when deterministic() was called
    dfa,          \* nfa.deterministic(), <<>> before
    dmatcher,     \* a matcher of dfa, with alive: every character so far matched
    cur,          \* history: the states of source that the characters so far lead to
    \* a concatenation of automata
    operands,     \* the automata given to Automaton.concat
    result,       \* Automaton.concat(operands), <<>> before
    fed,          \* the characters fed to result so far
    \* character sets
    sets,         \* the CharSets made so far
    produced,     \* history: the function that made the last one, and its arguments
    overlaps,     \* computeOverlaps(...sets), <<>> before
    returned,     \* the array that the getter ranges of a CharSet returned
    \* the declaration of a token type
    call,         \* history: the last declaration, and the token types before it
    \* a RegEx and a search of it
    search,       \* history: the last call of a search method, and what it gave
    \* a TextInputStream used by its owner
    streamCall,   \* history: the last call on the stream, the stream before it, and what it gave
    markHistory,  \* history: the positions of the stream at its mark() calls not yet popped
    \* the last reset() of a scan
    finalReset,   \* history: the position and the marks before it, and the position after it
    \* a matcher used by its owner
    matchCall,    \* history: the last call on the matcher, the matcher before it, what it
                  \* gave, and the states entered since the last reset()
    \* two iterators of one scanner
    iterators     \* the iterators made by Scanner.iterator, each with its stream and matcher

scannerVars == <<tokenTypes, automaton, stream, matcher, scan, startPos, tokens, depth0,
                 emptyPops>>
detVars == <<states, nfa, source, dfa, dmatcher, cur>>
opsVars == <<operands, result, fed>>
setVars == <<sets, produced, overlaps, returned>>
tokVars == <<call>>
scanHistory == <<finalReset>>
moreVars == <<matchCall, iterators>>
laterVars == <<search, streamCall, markHistory, scanHistory, moreVars>>
\* the variables that a search of a RegEx leaves alone, and those that a call
\* on a stream does
searchFrame == <<scannerVars, detVars, opsVars, setVars, tokVars, streamCall, markHistory,
                 scanHistory, moreVars>>
streamFrame == <<tokenTypes, automaton, matcher, scan, startPos, tokens, depth0, emptyPops,
                 detVars, opsVars, setVars, tokVars, search, scanHistory, moreVars>>
\* those that a call on a matcher leaves alone
matchFrame == <<tokenTypes, stream, scan, startPos, tokens, depth0, emptyPops,
                detVars, opsVars, setVars, tokVars, search, streamCall, markHistory,
                scanHistory, iterators>>
vars == <<pc, scannerVars, detVars, opsVars, setVars, tokVars, laterVars>>

NoScan == [lexeme |-> <<>>, consumedChars |-> <<>>, state |-> stateStart]
NoMatcher == [current |-> 0, lastRecognized |-> <<>>, recognized |-> <<>>]
NoPosition == [index |-> 0, line |-> 1, column |-> 1]

\* the variables of a scanner, before a scanner is made
NoScanner ==
    /\ tokenTypes = <<>>
    /\ automaton = <<>>
    /\ stream = TextInputStream(<<>>)
    /\ matcher = NoMatcher
    /\ scan = NoScan
    /\ startPos = NoPosition
    /\ tokens = <<>>
    /\ depth0 = 0
    /\ emptyPops = 0

\* the variables of an automaton built state by state, before one is
NoStates ==
    /\ states = <<>>
    /\ nfa = <<>>
    /\ source = <<>>
    /\ dfa = <<>>
    /\ dmatcher = [alive |-> FALSE, matcher |-> NoMatcher]
    /\ cur = {}

\* the variables of a concatenation, before one is
NoOperands ==
    /\ operands = <<>>
    /\ result = <<>>
    /\ fed = <<>>

NoProduced == [by |-> "none", arguments |-> <<>>, set |-> <<>>]
NoReturned == [of |-> 0, array |-> <<>>, shared |-> FALSE, before |-> <<>>]

\* the variables of the character sets, before one is made
NoSets ==
    /\ sets = <<>>
    /\ produced = NoProduced
    /\ overlaps = <<>>
    /\ returned = NoReturned

NoCall == [given |-> <<>>, thrown |-> FALSE, before |-> <<>>]

\* the variable of the declarations, before one is made
NoDeclaration == call = NoCall

NoSearch == [method |-> "none", of |-> <<>>, regex |-> <<>>, s |-> <<>>, from |-> 0,
             indexes |-> <<>>, gave |-> 0]

NoStreamCall == [op |-> "none", before |-> TextInputStream(<<>>), marked |-> <<>>, gave |-> 0]

NoFinalReset == [before |-> [index |-> 0, line |-> 1, column |-> 1], marks |-> <<>>,
                 after |-> [index |-> 0, line |-> 1, column |-> 1], pending |-> <<>>]

NoMatchCall == [op |-> "none", before |-> NoMatcher, char |-> 0, gave |-> FALSE, path |-> <<>>]

\* the variables of the later sections, before anything is done
NoLater ==
    /\ search = NoSearch
    /\ streamCall = NoStreamCall
    /\ markHistory = <<>>
    /\ finalReset = NoFinalReset
    /\ matchCall = NoMatchCall
    /\ iterators = <<>>

\* 1 if unmark() or reset() of stream s finds the mark stack empty
PopsEmpty(s) == IF Len(s.markedPositions) = 0 THEN 1 ELSE 0

(***************************************************************************)
(* The scanner: a Scanner with its token types declared, Scanner.iterator  *)
(* called on a stream, and the iterator advanced to its end                *)
(***************************************************************************)
Init ==
    /\ pc = "new"
    /\ tokenTypes \in Scanners
    /\ automaton = <<>>
    /\ stream = TextInputStream(<<>>)
    /\ matcher = NoMatcher
    /\ scan = NoScan
    /\ startPos = NoPosition
    /\ tokens = <<>>
    /\ depth0 = 0
    /\ emptyPops = 0
    /\ NoStates
    /\ NoOperands
    /\ NoSets
    /\ NoDeclaration
    /\ NoLater

\* iterator(stream) up to its loop, for a new stream of text that its owner
\* has marked or not: the automaton is built on first use and a matcher made
Iterator(text, marked) ==
    /\ pc = "new"
    /\ automaton' = IF automaton = <<>> THEN scannerAutomaton(tokenTypes) ELSE automaton
    /\ matcher' = newMatcher(automaton')
    /\ stream' = IF marked THEN mark(TextInputStream(text)) ELSE TextInputStream(text)
    /\ pc' = "iterating"
    /\ UNCHANGED <<tokenTypes, scan, startPos, tokens, depth0, emptyPops, detVars, opsVars, setVars, tokVars, laterVars>>

\* Scanner.next and ScanningMatcher.nextToken up to the loop
NextTokenBegin ==
    /\ pc = "iterating"
    /\ hasMoreSymbols(stream)
    /\ startPos' = position(stream)
    /\ scan' = [lexeme |-> <<>>, consumedChars |-> <<>>, state |-> stateStart]
    /\ matcher' = newMatcher(automaton)
    /\ depth0' = Len(stream.markedPositions)
    /\ stream' = mark(stream)
    /\ pc' = "scanning"
    /\ UNCHANGED <<tokenTypes, automaton, tokens, emptyPops, detVars, opsVars, setVars, tokVars, laterVars>>

\* one iteration of the loop of ScanningMatcher.nextToken; the loop ends
\* with the break, or when the stream has no more symbols
ScanSymbol ==
    /\ pc = "scanning"
    /\ hasMoreSymbols(stream)
    /\ LET marked == mark(stream)
           symbol == nextSymbol(marked)
           read == readNextSymbol(marked)
           matches == doesMatch(automaton, matcher, symbol)
           matched == match(automaton, matcher, symbol)
           doesRecognize == Len(matched.recognized) > 0
           state1 == IF scan.state = stateStart
                     THEN (IF matches THEN stateConsumingGoodChars ELSE stateConsumingBadChars)
                     ELSE scan.state
           consume == consumesLookAhead(matches, state1)
           consumed == [scan EXCEPT !.state = state1, !.consumedChars = Append(@, symbol)]
           recognized == recognizeConsumedChars([consumed EXCEPT !.state = stateRecognizing],
                                                unmark(read))
       IN  /\ matcher' = matched
           /\ IF consume
              THEN IF doesRecognize
                   THEN /\ scan' = recognized.sm
                        /\ stream' = recognized.stream
                        /\ emptyPops' = emptyPops + PopsEmpty(read) + PopsEmpty(unmark(read))
                   ELSE /\ scan' = consumed
                        /\ stream' = unmark(read)
                        /\ emptyPops' = emptyPops + PopsEmpty(read)
              ELSE /\ scan' = [scan EXCEPT !.state = state1]
                   /\ stream' = reset(read)
                   /\ emptyPops' = emptyPops + PopsEmpty(read)
           /\ pc' = IF consume /\ hasMoreSymbols(stream') THEN "scanning" ELSE "scanned"
    /\ UNCHANGED <<tokenTypes, automaton, startPos, tokens, depth0, detVars, opsVars, setVars, tokVars, laterVars>>

\* ScanningMatcher.nextToken after the loop, and the rest of Scanner.next:
\* the token is yielded
NextTokenEnd ==
    /\ pc = "scanned"
    /\ LET error == scan.state # stateRecognizing
           r == IF error THEN recognizeConsumedChars(scan, stream)
                         ELSE [sm |-> scan, stream |-> stream]
           m == IF error THEN newMatcher(automaton) ELSE matcher
           recognizables == m.lastRecognized
       IN  /\ matcher' = m
           /\ scan' = r.sm
           /\ stream' = reset(r.stream)
           /\ emptyPops' = emptyPops + (IF error THEN PopsEmpty(stream) ELSE 0)
                                     + PopsEmpty(r.stream)
           /\ tokens' = Append(tokens,
                  [tokenType |-> IF Len(recognizables) > 0 THEN recognizables[1]
                                                           ELSE errorTokenType,
                   lexeme |-> r.sm.lexeme,
                   position |-> startPos])
           /\ finalReset' = [before |-> position(r.stream), marks |-> r.stream.markedPositions,
                             after |-> position(reset(r.stream)),
                             pending |-> r.sm.consumedChars]
    /\ pc' = "iterating"
    /\ UNCHANGED <<tokenTypes, automaton, startPos, depth0, detVars, opsVars, setVars, tokVars,
                   search, streamCall, markHistory, moreVars>>

\* the end of Scanner.iterator: the EOF token
YieldEOF ==
    /\ pc = "iterating"
    /\ ~hasMoreSymbols(stream)
    /\ tokens' = Append(tokens, [tokenType |-> eofTokenType, lexeme |-> EOFLexeme,
                                 position |-> position(stream)])
    /\ pc' = "done"
    /\ UNCHANGED <<tokenTypes, automaton, stream, matcher, scan, startPos, depth0, emptyPops,
                   detVars, opsVars, setVars, tokVars, laterVars>>

Next ==
    \/ \E text \in Texts, marked \in BOOLEAN : Iterator(text, marked)
    \/ NextTokenBegin
    \/ ScanSymbol
    \/ NextTokenEnd
    \/ YieldEOF

Spec == Init /\ [][Next]_vars

\* a step of an iterator that has been made
Advance == NextTokenBegin \/ ScanSymbol \/ NextTokenEnd \/ YieldEOF

\* the iterator is advanced for as long as it has a next token
LiveSpec == Spec /\ WF_vars(Advance)


(***************************************************************************)
(* Acceptance                                                              *)
(***************************************************************************)
\* the state a matcher of automaton a is in after the characters of w, 0 if
\* one of them fired no transition
RECURSIVE runFrom(_, _, _, _)
runFrom(a, m, w, i) ==
    IF i > Len(w) THEN m.current
    ELSE IF doesMatch(a, m, w[i]) THEN runFrom(a, match(a, m, w[i]), w, i + 1)
    ELSE 0

\* a matcher of automaton a consumes all of w and ends in a final state
matcherAccepts(a, w) ==
    LET last == runFrom(a, newMatcher(a), w, 1)
    IN  last # 0 /\ isFinal(a[last])

\* the states of automaton a that some path labelled w[i..] leads to from
\* one of the states from
RECURSIVE reach(_, _, _, _)
reach(a, from, w, i) ==
    IF i > Len(w) THEN from
    ELSE reach(a, {a[s].transitions[t].target :
                      <<s, t>> \in {<<s, t>> \in from \X (1..9) :
                                        /\ t <= Len(a[s].transitions)
                                        /\ contains(a[s].transitions[t].trigger, w[i])}},
               w, i + 1)

\* some path labelled w from the start state of a ends in a final state
accepts(a, w) == \E s \in reach(a, {1}, w, 1) : isFinal(a[s])

(***************************************************************************)
(* The tokens of a scan                                                    *)
(***************************************************************************)
\* the tokens yielded before the EOF token
scanned == SelectSeq(tokens, LAMBDA t : t.tokenType # eofTokenType)

\* the lexemes of the tokens ts, one after the other
lexemes(ts) == flatten([k \in 1..Len(ts) |-> ts[k].lexeme])

\* the text that remains from index p on
remaining(p) == SubSeq(stream.text, p + 1, Len(stream.text))

\* the lengths of the non-empty prefixes of the text from index p on that
\* the scanner's automaton accepts
acceptedPrefixes(p) ==
    {n \in 1..(Len(stream.text) - p) : matcherAccepts(automaton, SubSeq(stream.text, p + 1, p + n))}

Max(S) == CHOOSE n \in S : \A m \in S : m <= n

\* character c has a transition from the start state of the scanner's automaton
startFires(c) == doesMatch(automaton, newMatcher(automaton), c)

\* the length of the longest run of characters from index p on that have no
\* transition from the start state
badRun(p) ==
    Max({n \in 0..(Len(stream.text) - p) : \A i \in 1..n : ~startFires(stream.text[p + i])})

\* where the lexeme of token k ends
endOf(k) == tokens[k].position.index + Len(tokens[k].lexeme)

(***************************************************************************)
(* C1: when the iterator is done, the lexemes of the tokens yielded before *)
(* the EOF token, put one after the other in the order they were yielded,  *)
(* are the input text; while it runs, they are the text read so far.       *)
(***************************************************************************)
C1_RoundTrip ==
    /\ pc = "done" => lexemes(scanned) = stream.text
    /\ pc = "iterating" => lexemes(scanned) = SubSeq(stream.text, 1, stream.index)

C1_Witness ==
    /\ pc = "done"
    /\ Len(scanned) >= 2
    /\ \E k \in 1..Len(scanned) : scanned[k].tokenType = errorTokenType
    /\ \E k \in 1..Len(scanned) : Len(scanned[k].lexeme) >= 2

(***************************************************************************)
(* C2: a scan that starts where some non-empty prefix of the remaining     *)
(* text is accepted by the scanner's automaton yields the longest such     *)
(* prefix as the lexeme, with a token type (a non-empty lastRecognized).   *)
(***************************************************************************)
C2_MaximalMunch ==
    \A k \in 1..Len(scanned) :
        acceptedPrefixes(scanned[k].position.index) # {} =>
            /\ Len(scanned[k].lexeme) = Max(acceptedPrefixes(scanned[k].position.index))
            /\ scanned[k].tokenType # errorTokenType

C2_Witness ==
    \E k \in 1..Len(scanned) :
        /\ Cardinality(acceptedPrefixes(scanned[k].position.index)) >= 2
        /\ Len(scanned[k].lexeme) >= 2
        /\ Len(remaining(scanned[k].position.index)) > Len(scanned[k].lexeme)

(***************************************************************************)
(* C3: every final state of the scanner's automaton carries one token      *)
(* type, and a token that is neither the error nor the EOF token has a     *)
(* lexeme that its token type's pattern accepts, and the earliest declared *)
(* token type among those whose pattern accepts the lexeme.                *)
(***************************************************************************)
C3_EarliestDeclared ==
    /\ \A s \in 1..Len(automaton) : Len(automaton[s].recognizables) <= 1
    /\ \A k \in 1..Len(scanned) :
           scanned[k].tokenType # errorTokenType =>
               /\ accepts(regexAutomaton(tokenTypes[scanned[k].tokenType]), scanned[k].lexeme)
               /\ \A j \in 1..Len(tokenTypes) :
                      accepts(regexAutomaton(tokenTypes[j]), scanned[k].lexeme)
                          => scanned[k].tokenType <= j

(***************************************************************************)
(* C4: an iterator comes to its end, and at its end the last token it has  *)
(* yielded is the one EOF token, with lexeme "EOF" and the position of the *)
(* end of the text; for the empty text it is the only token.               *)
(***************************************************************************)
C4_EOFLast ==
    pc = "done" =>
        /\ Len(tokens) = Len(scanned) + 1
        /\ tokens[Len(tokens)] = [tokenType |-> eofTokenType, lexeme |-> EOFLexeme,
                                  position |-> [index |-> Len(stream.text), line |-> 1,
                                                column |-> Len(stream.text) + 1]]
        /\ stream.text = <<>> => Len(tokens) = 1

C4_Terminates == (pc = "iterating" ~> pc = "done") /\ []C4_EOFLast

C4_Witness == pc = "done" /\ Len(tokens) >= 3

(***************************************************************************)
(* C5: every token before the EOF token has a lexeme of one character or   *)
(* more; the first token begins at index 0 and every token, the EOF token  *)
(* too, begins where the lexeme of the token before it ends; between scans *)
(* the stream is where the last lexeme ends.                               *)
(***************************************************************************)
C5_Progress ==
    /\ \A k \in 1..Len(scanned) : Len(scanned[k].lexeme) >= 1
    /\ \A k \in 1..Len(tokens) :
           tokens[k].position.index = IF k = 1 THEN 0 ELSE endOf(k - 1)
    /\ (pc = "iterating" /\ tokens # <<>>) => stream.index = endOf(Len(tokens))

C5_Witness ==
    /\ pc = "iterating"
    /\ Len(tokens) >= 2
    /\ tokens[Len(tokens) - 1].tokenType = errorTokenType
    /\ tokens[Len(tokens)].tokenType > 0
    /\ hasMoreSymbols(stream)

(***************************************************************************)
(* C6: a scan whose first character has no transition from the start state *)
(* yields an error token whose lexeme is the longest run of characters     *)
(* that have no transition from the start state, and the next token begins *)
(* at the character after the run.                                         *)
(***************************************************************************)
C6_ErrorRun ==
    \A k \in 1..Len(scanned) :
        badRun(scanned[k].position.index) > 0 =>
            /\ scanned[k].tokenType = errorTokenType
            /\ Len(scanned[k].lexeme) = badRun(scanned[k].position.index)
            /\ k < Len(tokens) => tokens[k + 1].position.index = endOf(k)
            /\ (k = Len(tokens) /\ pc = "iterating") => stream.index = endOf(k)

C6_Witness ==
    \E k \in 1..Len(scanned) :
        /\ badRun(scanned[k].position.index) >= 2
        /\ k < Len(scanned)
        /\ scanned[k + 1].tokenType > 0

MaxTransitions == 3

\* the triggers of the transitions: the ranges of the alphabet
Triggers == {range(min, max) : <<min, max>> \in {<<min, max>> \in Chars \X Chars : min <= max}}

\* the number of transitions of the states made so far
transitionCount == Len(flatten([s \in 1..Len(states) |-> states[s].transitions]))

\* the states that the states from lead to on character c
step(a, from, c) ==
    {a[s].transitions[t].target :
        <<s, t>> \in {<<s, t>> \in from \X (1..9) :
                          /\ t <= Len(a[s].transitions)
                          /\ contains(a[s].transitions[t].trigger, c)}}

InitDet ==
    /\ pc = "building"
    /\ NoScanner
    /\ NoOperands
    /\ NoSets
    /\ NoDeclaration
    /\ NoLater
    /\ states = <<state(<<>>)>>
    /\ nfa = <<>>
    /\ source = <<>>
    /\ dfa = <<>>
    /\ dmatcher = [alive |-> FALSE, matcher |-> NoMatcher]
    /\ cur = {}

\* from.on(trigger, State.create(...)) with a new target state, final
\* (recognizing itself) or transient
On(from, trigger, final) ==
    /\ pc = "building"
    /\ transitionCount < MaxTransitions
    /\ states' = Append([states EXCEPT ![from] = on(@, trigger, Len(states) + 1, TRUE)],
                        state(IF final THEN <<Len(states) + 1>> ELSE <<>>))
    /\ UNCHANGED <<pc, scannerVars, opsVars, setVars, tokVars, laterVars, nfa, source, dfa, dmatcher, cur>>

\* Automaton.create(start)
Create ==
    /\ pc = "building"
    /\ nfa' = create(states, 1)
    /\ pc' = "created"
    /\ UNCHANGED <<scannerVars, opsVars, setVars, tokVars, laterVars, states, source, dfa, dmatcher, cur>>

\* nfa.deterministic(), and newMatcher() of the result.  cloneNoDuplicates
\* begins with this.reorganizeTriggerOverlaps(), which rewrites the
\* transitions of the states of nfa
Deterministic ==
    /\ pc = "created"
    /\ source' = nfa
    /\ dfa' = deterministic(nfa)
    /\ nfa' = reorganizeAll(nfa)
    /\ dmatcher' = [alive |-> TRUE, matcher |-> newMatcher(dfa')]
    /\ cur' = {1}
    /\ pc' = "matching"
    /\ UNCHANGED <<scannerVars, opsVars, setVars, tokVars, laterVars, states>>

\* match(c) of the matcher of dfa
Match(c) ==
    /\ pc = "matching"
    /\ dmatcher' = [alive |-> dmatcher.alive /\ doesMatch(dfa, dmatcher.matcher, c),
                    matcher |-> match(dfa, dmatcher.matcher, c)]
    /\ cur' = step(source, cur, c)
    /\ UNCHANGED <<pc, scannerVars, opsVars, setVars, tokVars, laterVars, states, nfa, source, dfa>>

NextDet ==
    \/ \E from \in 1..Len(states), trigger \in Triggers, final \in BOOLEAN :
           On(from, trigger, final)
    \/ Create
    \/ Deterministic
    \/ \E c \in Chars : Match(c)

SpecDet == InitDet /\ [][NextDet]_vars

(***************************************************************************)
(* C8: in every state of a.deterministic() no two transitions have a       *)
(* character in common, so at most one transition fires on a character.    *)
(***************************************************************************)
C8_DisjointTriggers ==
    \A s \in 1..Len(dfa) : \A t1, t2 \in 1..Len(dfa[s].transitions) : \A c \in Chars :
        (contains(dfa[s].transitions[t1].trigger, c) /\ contains(dfa[s].transitions[t2].trigger, c))
            => t1 = t2

(***************************************************************************)
(* C9: after any characters, the matcher of a.deterministic() has consumed *)
(* them all and is in a final state if and only if some path of a labelled *)
(* with them leads from the start state to a final state.                  *)
(***************************************************************************)
C9_SameLanguage ==
    pc = "matching" =>
        ((dmatcher.alive /\ isFinal(dfa[dmatcher.matcher.current]))
            <=> \E s \in cur : isFinal(source[s]))

(***************************************************************************)
(* C14: deterministic() leaves the automaton it is called on unchanged:    *)
(* its states have the recognizables and the transitions, in order, that   *)
(* they had before the call.                                               *)
(***************************************************************************)
C14_DeterministicKeepsOperand == pc = "matching" => nfa = source

(***************************************************************************)
(* Automata composed with Automaton.concat, Automaton.choice, optional()   *)
(* and repeated(), and the strings the results accept                      *)
(***************************************************************************)
\* the most operands of a composition
MaxOperands == 3

\* Automaton.create(start) of start.on(char(c), State.create(true)): "c"
CharAutomaton(c) == create(<<on(state(<<>>), char(c), 2, TRUE), state(<<Accept>>)>>, 1)

\* start = State.create(true); start.on(char(c), State.create(true)): "c?"
OptionalCharAutomaton(c) ==
    create(<<on(state(<<Accept>>), char(c), 2, TRUE), state(<<Accept>>)>>, 1)

\* start = State.create(true); start.on(char(c), start): "c*", an optional
\* automaton whose start state has an incoming transition
LoopAutomaton(c) == create(<<on(state(<<Accept>>), char(c), 1, TRUE)>>, 1)

\* start.on(char(c), start); start.on(char(d), State.create(true)): "c*d",
\* an automaton that starts with an optional repetition
LoopThenCharAutomaton(c, d) ==
    create(<<on(on(state(<<>>), char(c), 1, TRUE), char(d), 2, TRUE), state(<<Accept>>)>>, 1)

\* the automata that compositions begin with
Samples ==
    {CharAutomaton(0), CharAutomaton(1), OptionalCharAutomaton(2), LoopAutomaton(0),
     LoopThenCharAutomaton(0, 1)}

\* w is w1 ... wn with wi accepted by automata[i], ..., wn by the last
RECURSIVE inConcat(_, _, _)
inConcat(automata, i, w) ==
    IF i > Len(automata) THEN w = <<>>
    ELSE \E k \in 0..Len(w) :
             /\ accepts(automata[i], SubSeq(w, 1, k))
             /\ inConcat(automata, i + 1, SubSeq(w, k + 1, Len(w)))

\* w is one or more strings accepted by a, one after the other
RECURSIVE inRepeated(_, _)
inRepeated(a, w) ==
    \/ accepts(a, w)
    \/ \E k \in 1..(Len(w) - 1) :
           /\ accepts(a, SubSeq(w, 1, k))
           /\ inRepeated(a, SubSeq(w, k + 1, Len(w)))

\* the start state of a is the target of a transition
startHasIncoming(a) ==
    \E s \in 1..Len(a) : \E t \in 1..Len(a[s].transitions) : a[s].transitions[t].target = 1

InitOps ==
    /\ pc = "operands"
    /\ NoScanner
    /\ NoStates
    /\ NoOperands
    /\ NoSets
    /\ NoDeclaration
    /\ NoLater

\* one more operand for the composition
Operand(a) ==
    /\ pc = "operands"
    /\ Len(operands) < (IF \A i \in 1..Len(operands) : operands[i] \in Samples
                        THEN MaxOperands ELSE 2)
    /\ operands' = Append(operands, a)
    /\ UNCHANGED <<pc, scannerVars, detVars, setVars, tokVars, laterVars, result, fed>>

\* Automaton.concat(...operands)
Concat ==
    /\ pc = "operands"
    /\ Len(operands) >= 1
    /\ result' = concat(operands)
    /\ pc' = "concat"
    /\ UNCHANGED <<scannerVars, detVars, setVars, tokVars, laterVars, operands, fed>>

\* Automaton.choice(...operands)
Choice ==
    /\ pc = "operands"
    /\ Len(operands) >= 1
    /\ result' = choice(operands)
    /\ pc' = "choice"
    /\ UNCHANGED <<scannerVars, detVars, setVars, tokVars, laterVars, operands, fed>>

\* operands[0].optional()
Optional ==
    /\ pc = "operands"
    /\ Len(operands) = 1
    /\ result' = optional(operands[1])
    /\ pc' = "optional"
    /\ UNCHANGED <<scannerVars, detVars, setVars, tokVars, laterVars, operands, fed>>

\* operands[0].repeated()
Repeated ==
    /\ pc = "operands"
    /\ Len(operands) = 1
    /\ result' = repeated(operands[1])
    /\ pc' = "repeated"
    /\ UNCHANGED <<scannerVars, detVars, setVars, tokVars, laterVars, operands, fed>>

\* the result of a composition of at most two of the first automata is the
\* first operand of another composition
Reuse ==
    /\ pc \in {"concat", "choice", "optional", "repeated"}
    /\ fed = <<>>
    /\ Len(operands) <= 2
    /\ \A i \in 1..Len(operands) : operands[i] \in Samples
    /\ operands' = <<result>>
    /\ result' = <<>>
    /\ pc' = "operands"
    /\ UNCHANGED <<scannerVars, detVars, setVars, tokVars, laterVars, fed>>

\* one more character of the string given to the result
Feed(c) ==
    /\ pc \in {"concat", "choice", "optional", "repeated"}
    /\ Len(fed) < MaxLen
    /\ fed' = Append(fed, c)
    /\ UNCHANGED <<pc, scannerVars, detVars, setVars, tokVars, laterVars, operands, result>>

NextOps ==
    \/ \E a \in Samples : Operand(a)
    \/ Concat
    \/ Choice
    \/ Optional
    \/ Repeated
    \/ Reuse
    \/ \E c \in Chars : Feed(c)

SpecOps == InitOps /\ [][NextOps]_vars

(***************************************************************************)
(* C10: the concatenation of the operands accepts a string if and only if  *)
(* the string is w1 ... wn with every wi accepted by the i-th operand, and *)
(* it is optional if and only if every operand is optional.                *)
(***************************************************************************)
C10_Concat ==
    pc = "concat" =>
        /\ accepts(result, fed) <=> inConcat(operands, 1, fed)
        /\ isOptional(result) <=> \A i \in 1..Len(operands) : isOptional(operands[i])

C10_Witness ==
    /\ pc = "concat"
    /\ Len(operands) = 3
    /\ isOptional(operands[1]) /\ ~isOptional(operands[2]) /\ isOptional(operands[3])
    /\ Len(fed) = 3
    /\ accepts(result, fed)
    /\ ~accepts(result, SubSeq(fed, 1, 1))

(***************************************************************************)
(* C11: the choice of the operands accepts a string if and only if one of  *)
(* the operands accepts it, and its start state is final if and only if    *)
(* one of the operands is optional.                                        *)
(***************************************************************************)
C11_Choice ==
    pc = "choice" =>
        /\ accepts(result, fed) <=> \E i \in 1..Len(operands) : accepts(operands[i], fed)
        /\ isFinal(result[1]) <=> \E i \in 1..Len(operands) : isOptional(operands[i])

C11_Witness ==
    /\ pc = "choice"
    /\ Len(operands) >= 2
    /\ \E i \in 1..Len(operands) : startHasIncoming(operands[i]) /\ ~isOptional(operands[i])
    /\ \E i \in 1..Len(operands) : isOptional(operands[i])
    /\ Len(fed) >= 2
    /\ accepts(result, fed)
    /\ \E i \in 1..Len(operands) : ~accepts(operands[i], fed)

(***************************************************************************)
(* C12: optional() of an automaton that is not optional accepts a string   *)
(* if and only if the string is empty or the automaton accepts it;         *)
(* optional() of an optional automaton is the automaton itself.            *)
(***************************************************************************)
C12_Optional ==
    pc = "optional" =>
        IF isOptional(operands[1])
        THEN result = operands[1]
        ELSE /\ accepts(result, fed) <=> (fed = <<>> \/ accepts(operands[1], fed))
             /\ isOptional(result)

C12_Witness ==
    /\ pc = "optional"
    /\ ~isOptional(operands[1])
    /\ startHasIncoming(operands[1])
    /\ fed # <<>>
    /\ ~accepts(result, fed)
    /\ \E c \in Chars : accepts(result, Append(fed, c))

(***************************************************************************)
(* C13: repeated() of an automaton accepts a string if and only if the     *)
(* string is one or more strings that the automaton accepts, one after the *)
(* other; repeated().optional() accepts those strings and the empty        *)
(* string; the automaton followed by repeated().optional() accepts what    *)
(* repeated() accepts.                                                     *)
(***************************************************************************)
C13_Repeated ==
    pc = "repeated" =>
        /\ accepts(result, fed) <=> inRepeated(operands[1], fed)
        /\ accepts(optional(result), fed) <=> (fed = <<>> \/ inRepeated(operands[1], fed))
        /\ accepts(concat(<<operands[1], optional(result)>>), fed) <=> accepts(result, fed)

C13_Witness ==
    /\ pc = "repeated"
    /\ operands[1] \notin Samples
    /\ ~isOptional(operands[1])
    /\ Len(fed) = 3
    /\ accepts(result, fed)
    /\ ~accepts(operands[1], fed)

(***************************************************************************)
(* charsets.ts: complement, intersection, chars, ranges, all, empty        *)
(***************************************************************************)
\* all = range(alphabet.min, alphabet.max)
all == range(AlphabetMin, AlphabetMax)

\* empty = union()
empty == union(<<>>)

\* chars(cs): the union of char(c) for the characters of cs
chars(cs) == union([i \in 1..Len(cs) |-> char(cs[i])])

\* ranges(...rs): the union of range(r.min, r.max)
ranges(rs) == union([i \in 1..Len(rs) |-> range(rs[i].min, rs[i].max)])

\* a limit that keeps its value and changes its side
flipLimit(limit) == [value |-> limit.value, upper |-> ~limit.upper]

\* complementLimit: the limit on the other side of the boundary
complementLimit(limit) ==
    [value |-> limit.value + (IF limit.upper THEN 1 ELSE -1), upper |-> ~limit.upper]

\* complement(set)
complement(set) ==
    IF Len(set) = 0 THEN all
    ELSE Let(limitsOfRanges(set), LAMBDA setLimits :
         Let(SelectSeq([i \in 1..Len(setLimits) |-> complementLimit(setLimits[i])],
                       LAMBDA limit : contains(all, limit.value)),
             LAMBDA limits :
                 IF Len(limits) > 0
                 THEN charSet((IF limits[1].upper THEN <<rangeLimits(all[1])[1]>> ELSE <<>>)
                              \o limits
                              \o (IF ~limits[Len(limits)].upper THEN <<rangeLimits(all[1])[2]>>
                                                                ELSE <<>>))
                 ELSE charSet(limits)))

\* intersection(...sets)
intersection(setsOf) ==
    complement(union([i \in 1..Len(setsOf) |-> complement(setsOf[i])]))

(***************************************************************************)
(* Character sets made with the functions of charsets.ts, partitioned with *)
(* computeOverlaps, and read through the getter ranges                     *)
(***************************************************************************)
\* the most character sets made
MaxSets == 3

\* the ranges given to range and ranges: any two characters, in any order
Ranges == {[min |-> min, max |-> max] : <<min, max>> \in Chars \X Chars}

\* the arguments of union and intersection: the sets made so far at the
\* indexes of I, in order
chosen(I) == [k \in 1..Cardinality(I) |-> sets[Nth(I, k)]]

\* the characters of a set
points(set) == {c \in Chars : contains(set, c)}

InitSets ==
    /\ pc = "sets"
    /\ NoScanner
    /\ NoStates
    /\ NoOperands
    /\ NoSets
    /\ NoDeclaration
    /\ NoLater

\* the set that function by made of arguments is one more of the sets
Produce(by, arguments, set) ==
    /\ pc = "sets"
    /\ Len(sets) < MaxSets
    /\ sets' = Append(sets, set)
    /\ produced' = [by |-> by, arguments |-> arguments, set |-> set]
    /\ UNCHANGED <<pc, scannerVars, detVars, opsVars, tokVars, laterVars, overlaps, returned>>

\* char(c)
Char(c) == Produce("char", <<c>>, char(c))

\* range(min, max)
Range(r) == Produce("range", <<r>>, range(r.min, r.max))

\* chars(cs)
CharsOf(cs) == Produce("chars", cs, chars(cs))

\* ranges(...rs)
RangesOf(rs) == Produce("ranges", rs, ranges(rs))

\* union(...) of sets made so far
Union(I) == Produce("union", chosen(I), union(chosen(I)))

\* complement(sets[i])
Complement(i) == Produce("complement", <<sets[i]>>, complement(sets[i]))

\* intersection(...) of sets made so far
Intersection(I) == Produce("intersection", chosen(I), intersection(chosen(I)))

\* computeOverlaps(...sets)
ComputeOverlaps ==
    /\ pc = "sets"
    /\ Len(sets) >= 1
    /\ overlaps' = computeOverlaps(sets)
    /\ pc' = "overlaps"
    /\ UNCHANGED <<scannerVars, detVars, opsVars, tokVars, laterVars, sets, produced, returned>>

\* sets[i].ranges: CharRange.ranges is a new array [this]; Union.ranges is
\* the array charRanges of the Union itself.  Union.of makes a CharRange of
\* one range and a Union of any other number of ranges
GetRanges(i) ==
    /\ pc = "sets"
    /\ returned' = [of |-> i, array |-> sets[i], shared |-> Len(sets[i]) # 1,
                    before |-> sets[i]]
    /\ pc' = "returned"
    /\ UNCHANGED <<scannerVars, detVars, opsVars, tokVars, laterVars, sets, produced, overlaps>>

\* the caller's push(r) on the array that the getter returned
PushReturned(r) ==
    /\ pc = "returned"
    /\ returned' = [returned EXCEPT !.array = Append(@, r)]
    /\ sets' = IF returned.shared THEN [sets EXCEPT ![returned.of] = Append(@, r)] ELSE sets
    /\ pc' = "pushed"
    /\ UNCHANGED <<scannerVars, detVars, opsVars, tokVars, laterVars, produced, overlaps>>

NextSets ==
    \/ \E c \in Chars : Char(c)
    \/ \E r \in Ranges : Range(r)
    \/ \E cs \in Strings(2) : CharsOf(cs)
    \/ \E rs \in UNION {[1..k -> Ranges] : k \in 0..2} : RangesOf(rs)
    \/ \E I \in SUBSET (1..Len(sets)) : Union(I)
    \/ \E i \in 1..Len(sets) : Complement(i)
    \/ \E I \in SUBSET (1..Len(sets)) : Intersection(I)
    \/ ComputeOverlaps
    \/ \E i \in 1..Len(sets) : GetRanges(i)
    \/ \E r \in Ranges : PushReturned(r)

SpecSets == InitSets /\ [][NextSets]_vars

\* the sets made by the functions of charsets.ts so far
made ==
    {sets[i] : i \in 1..Len(sets)} \cup {produced.set}
        \cup {overlaps[k].value : k \in 1..Len(overlaps)}

\* ranges in ascending order with a gap between one and the next, within
\* the alphabet
canonical(set) ==
    \A i \in 1..Len(set) :
        /\ set[i].min \in Chars
        /\ set[i].max \in Chars
        /\ set[i].min <= set[i].max
        /\ i < Len(set) => set[i].max + 1 < set[i + 1].min

(***************************************************************************)
(* C15: after the caller changes the array that the getter ranges of a     *)
(* character set returned, the character set has the ranges it had when    *)
(* the getter was called.                                                  *)
(***************************************************************************)
C15_Encapsulated == pc = "pushed" => sets[returned.of] = returned.before

(***************************************************************************)
(* C16: every character set made by char, range, chars, ranges, union,     *)
(* complement, intersection or computeOverlaps has its ranges in ascending *)
(* order, with a gap between one and the next, within the alphabet; two of *)
(* them have the same characters if and only if they have the same ranges. *)
(***************************************************************************)
C16_Canonical ==
    pc \in {"sets", "overlaps"} =>
        /\ \A set \in made : canonical(set)
        /\ \A set1, set2 \in made : points(set1) = points(set2) <=> set1 = set2

C16_Witness ==
    /\ pc = "sets"
    /\ produced.by = "union"
    /\ Len(produced.arguments) = 2
    /\ Len(produced.arguments[1]) = 1
    /\ Len(produced.arguments[2]) = 1
    /\ produced.arguments[1][1].max + 1 = produced.arguments[2][1].min
    /\ Len(produced.set) = 1

\* the indexes of the sets of entry k of overlaps
indexSet(k) == {overlaps[k].key[n] : n \in 1..Len(overlaps[k].key)}

(***************************************************************************)
(* C17: the partitions that computeOverlaps returns have no character in   *)
(* common, and the partition of an entry holds the characters that are in  *)
(* every set of the entry's index set and in no other set.                 *)
(***************************************************************************)
C17_Partition ==
    pc = "overlaps" =>
        /\ \A k1, k2 \in 1..Len(overlaps) :
               k1 # k2 => points(overlaps[k1].value) \cap points(overlaps[k2].value) = {}
        /\ \A k \in 1..Len(overlaps) :
               points(overlaps[k].value) =
                   {c \in Chars : \A i \in 1..Len(sets) : contains(sets[i], c) <=> i \in indexSet(k)}

(***************************************************************************)
(* C18: for every set given to computeOverlaps, the union of the           *)
(* partitions whose index set holds the set's index is the set; no         *)
(* partition is empty, no two entries have the same index set, and the     *)
(* entries are in ascending lexicographic order of their index sets.       *)
(***************************************************************************)
C18_Cover ==
    pc = "overlaps" =>
        /\ \A i \in 1..Len(sets) :
               UNION {points(overlaps[k].value) : k \in {n \in 1..Len(overlaps) : i \in indexSet(n)}}
                   = points(sets[i])
        /\ \A k \in 1..Len(overlaps) : points(overlaps[k].value) # {}
        /\ \A k1, k2 \in 1..Len(overlaps) : k1 # k2 => indexSet(k1) # indexSet(k2)
        /\ \A k \in 1..(Len(overlaps) - 1) :
               \E n \in 1..(Len(overlaps[k].key) + 1) :
                   /\ \A m \in 1..(n - 1) : m <= Len(overlaps[k + 1].key)
                                            /\ overlaps[k].key[m] = overlaps[k + 1].key[m]
                   /\ IF n > Len(overlaps[k].key) THEN Len(overlaps[k + 1].key) >= n
                      ELSE n <= Len(overlaps[k + 1].key)
                           /\ overlaps[k].key[n] < overlaps[k + 1].key[n]

C18_Witness ==
    /\ pc = "overlaps"
    /\ Len(sets) = 3
    /\ Len(overlaps) >= 3
    /\ \E k \in 1..Len(overlaps) : Len(overlaps[k].value) = 2
    /\ \E k \in 1..Len(overlaps) : Len(overlaps[k].key) >= 2

(***************************************************************************)
(* C19: the complement of the complement of a character set has the ranges *)
(* of the set; the complement of empty is all and the complement of all is *)
(* empty.                                                                  *)
(***************************************************************************)
C19_Involution ==
    (pc = "sets" /\ produced.by = "complement") =>
        /\ complement(produced.set) = produced.arguments[1]
        /\ produced.arguments[1] = empty => produced.set = all
        /\ produced.arguments[1] = all => produced.set = empty

C19_Witness ==
    /\ pc = "sets"
    /\ produced.by = "complement"
    /\ Len(produced.arguments[1]) = 2
    /\ contains(produced.arguments[1], AlphabetMin)
    /\ contains(produced.arguments[1], AlphabetMax)
    /\ produced.set # empty

(***************************************************************************)
(* tokens.ts and scanning.ts: the declaration of token types               *)
(***************************************************************************)
\* the most token types declared
MaxTokenTypes == 3

\* a token type constructor that takes any pattern
TokenTypeUnchecked(tokenPattern) == [thrown |-> FALSE, pattern |-> tokenPattern]

\* new TokenTypeImpl(pattern, parser, serializer): throws if the pattern's
\* automaton is optional
TokenTypeImpl(tokenPattern) ==
    [thrown |-> isOptional(regexAutomaton(tokenPattern)), pattern |-> tokenPattern]

\* new TokenTypeWrapper(tokenType, array, index): the wrapper takes the
\* place at index of the array, or is pushed when index is the array's length
TokenTypeWrapper(tokenType, array, index) ==
    IF index <= Len(array) THEN [array EXCEPT ![index] = tokenType.pattern]
                           ELSE Append(array, tokenType.pattern)

\* the patterns given to the declarations: three that do not accept the
\* empty string and three that do
TokenPatterns ==
    {pattern(e) : e \in
        {CharInExpr(0, 0),
         OneOrMoreExpr(CharInExpr(0, 1)),
         ConcatExpr(<<ZeroOrMoreExpr(CharInExpr(0, 0)), CharInExpr(1, 1)>>),
         ZeroOrMoreExpr(CharInExpr(1, 1)),
         ChoiceExpr(<<WordExpr(<<0, 1>>), ZeroOrMoreExpr(CharInExpr(2, 2))>>),
         ConcatExpr(<<ZeroOrMoreExpr(CharInExpr(0, 0)), ZeroOrMoreExpr(CharInExpr(1, 1))>>)}}

InitTok ==
    /\ pc = "declaring"
    /\ NoScanner
    /\ NoStates
    /\ NoOperands
    /\ NoSets
    /\ NoDeclaration
    /\ NoLater

\* Scanner.string(pattern), float, integer, boolean:
\* this.define(tokens.textualToken(pattern)); the token type is constructed
\* before define is called
Define(tokenPattern) ==
    /\ pc = "declaring"
    /\ Len(tokenTypes) < MaxTokenTypes
    /\ LET tokenType == TokenTypeImpl(tokenPattern)
       IN  /\ call' = [given |-> tokenType.pattern, thrown |-> tokenType.thrown,
                       before |-> tokenTypes]
           /\ tokenTypes' = IF tokenType.thrown THEN tokenTypes
                            ELSE TokenTypeWrapper(tokenType, tokenTypes, Len(tokenTypes) + 1)
    /\ UNCHANGED <<pc, automaton, stream, matcher, scan, startPos, tokens, depth0, emptyPops,
                   detVars, opsVars, setVars, laterVars>>

\* tokenTypes[i].parsedAs(parser), as in Scanner.keyword: a new TokenTypeImpl
\* of the same pattern, wrapped at the same index
ParsedAs(i) ==
    /\ pc = "declaring"
    /\ LET tokenType == TokenTypeImpl(tokenTypes[i])
       IN  /\ call' = [given |-> tokenType.pattern, thrown |-> tokenType.thrown,
                       before |-> tokenTypes]
           /\ tokenTypes' = IF tokenType.thrown THEN tokenTypes
                            ELSE TokenTypeWrapper(tokenType, tokenTypes, i)
    /\ UNCHANGED <<pc, automaton, stream, matcher, scan, startPos, tokens, depth0, emptyPops,
                   detVars, opsVars, setVars, laterVars>>

NextTok ==
    \/ \E tokenPattern \in TokenPatterns : Define(tokenPattern)
    \/ \E i \in 1..Len(tokenTypes) : ParsedAs(i)

SpecTok == InitTok /\ [][NextTok]_vars

(***************************************************************************)
(* C20: the declaration of a token type whose pattern accepts the empty    *)
(* string throws, and the scanner's list of token types is what it was     *)
(* before the declaration.                                                 *)
(***************************************************************************)
C20_OptionalPatternThrows ==
    (call # NoCall /\ accepts(regexAutomaton(call.given), <<>>)) =>
        /\ call.thrown
        /\ tokenTypes = call.before

C20_Witness ==
    /\ call.thrown
    /\ accepts(regexAutomaton(call.given), <<>>)
    /\ accepts(regexAutomaton(call.given), <<0, 1>>)
    /\ Len(tokenTypes) = 2

(***************************************************************************)
(* regex.ts: the search methods of a RegEx                                 *)
(***************************************************************************)
\* null, as a search method returns it
Null == -1

\* the loop of RegEx.matchIndexes(s, from) from index i (0-based) with the
\* matcher m: the indexes it yields, in the order it yields them
RECURSIVE matchIndexesLoop(_, _, _, _)
matchIndexesLoop(r, m, s, i) ==
    IF i < Len(s)
    THEN (IF Len(m.recognized) > 0 THEN <<i>> ELSE <<>>) \o
         (IF doesMatch(r, m, s[i + 1]) THEN matchIndexesLoop(r, match(r, m, s[i + 1]), s, i + 1)
                                       ELSE <<>>)
    ELSE (IF Len(m.recognized) > 0 THEN <<Len(s)>> ELSE <<>>)

\* RegEx.matchIndexes(s, from)
matchIndexes(r, s, from) == matchIndexesLoop(r, newMatcher(r), s, from)

\* RegEx.longestMatch(s, from): the last index yielded, or null
longestMatch(r, s, from) ==
    Let(matchIndexes(r, s, from), LAMBDA is : IF Len(is) > 0 THEN is[Len(is)] ELSE Null)

\* RegEx.shortestMatch(s, from): the first index yielded, or null
shortestMatch(r, s, from) ==
    Let(matchIndexes(r, s, from), LAMBDA is : IF Len(is) > 0 THEN is[1] ELSE Null)

\* RegEx.matches(s)
matches(r, s) == longestMatch(r, s, 0) = Len(s)

\* the expressions of the RegExes searched
RegExExprs ==
    {CharInExpr(0, 1),
     WordExpr(<<0, 1>>),
     OneOrMoreExpr(CharInExpr(0, 0)),
     ZeroOrMoreExpr(WordExpr(<<0, 1>>)),
     ConcatExpr(<<ZeroOrMoreExpr(CharInExpr(0, 0)), CharInExpr(1, 1)>>),
     ChoiceExpr(<<WordExpr(<<0>>), WordExpr(<<0, 1, 2>>)>>),
     ChoiceExpr(<<WordExpr(<<0, 2>>), CharInExpr(0, 1)>>),
     ConcatExpr(<<OneOrMoreExpr(CharInExpr(0, 1)), CharInExpr(2, 2)>>),
     ChoiceExpr(<<ConcatExpr(<<CharInExpr(0, 1), CharInExpr(2, 2)>>), CharInExpr(0, 0),
                  CharInExpr(1, 1)>>),
     ChoiceExpr(<<ConcatExpr(<<CharInExpr(0, 1), CharInExpr(2, 2)>>), WordExpr(<<0, 1>>),
                  CharInExpr(1, 1)>>)}

\* the RegExes searched, each with the expression that made it
RegExes == {[of |-> e, regex |-> pattern(e)] : e \in RegExExprs}

\* the strings of an expression's language, by the meaning of its builders
RECURSIVE inLanguage(_, _)
inLanguage(e, w) ==
    CASE e.builder = "charIn" -> Len(w) = 1 /\ e.min <= w[1] /\ w[1] <= e.max
      [] e.builder = "concat" ->
             IF Len(e.operands) = 0 THEN w = <<>>
             ELSE \E k \in 0..Len(w) :
                      /\ inLanguage(e.operands[1], SubSeq(w, 1, k))
                      /\ inLanguage([e EXCEPT !.operands = Tail(@)], SubSeq(w, k + 1, Len(w)))
      [] e.builder = "choice" -> \E i \in 1..Len(e.operands) : inLanguage(e.operands[i], w)
      [] e.builder = "oneOrMore" ->
             \/ inLanguage(e.operands[1], w)
             \/ \E k \in 1..(Len(w) - 1) :
                    /\ inLanguage(e.operands[1], SubSeq(w, 1, k))
                    /\ inLanguage(e, SubSeq(w, k + 1, Len(w)))
      [] e.builder = "zeroOrMore" ->
             \/ w = <<>>
             \/ inLanguage([e EXCEPT !.builder = "oneOrMore"], w)

InitRegex ==
    /\ pc = "regex"
    /\ NoScanner
    /\ NoStates
    /\ NoOperands
    /\ NoSets
    /\ NoDeclaration
    /\ NoLater

\* what a search method of the RegEx regex gives on the string s: an index,
\* null, or 1 for true and 0 for false; 0 for matchIndexes, whose indexes
\* are kept apart
searchGives(method, regex, s, from) ==
    CASE method = "matchIndexes" -> 0
      [] method = "longestMatch" -> longestMatch(regex, s, from)
      [] method = "shortestMatch" -> shortestMatch(regex, s, from)
      [] method = "matches" -> IF matches(regex, s) THEN 1 ELSE 0

\* a call of a search method of RegEx r on the string s
Searched(method, r, s, from) ==
    /\ pc = "regex"
    /\ search' = [method |-> method, of |-> r.of, regex |-> r.regex, s |-> s, from |-> from,
                  indexes |-> matchIndexes(r.regex, s, from),
                  gave |-> searchGives(method, r.regex, s, from)]
    /\ pc' = "searched"
    /\ UNCHANGED searchFrame

NextRegex ==
    \E r \in RegExes, s \in Texts :
        \/ \E from \in 0..Len(s), method \in {"matchIndexes", "longestMatch", "shortestMatch"} :
               Searched(method, r, s, from)
        \/ Searched("matches", r, s, 0)

SpecRegex == InitRegex /\ [][NextRegex]_vars

\* the indexes to of [from, Len(s)] with s[from..to) in the language, ascending
acceptedIndexes(e, s, from) ==
    SetToSortedSeq({to \in from..Len(s) : inLanguage(e, SubSeq(s, from + 1, to))})

(***************************************************************************)
(* C21: matchIndexes(s, from) yields, in ascending order, exactly the      *)
(* indexes to of [from, length of s] with s[from..to) in the language of   *)
(* the RegEx; shortestMatch and longestMatch give the first and the last   *)
(* of them, null if there is none; matches(s) is whether the length of s   *)
(* is among the indexes from 0.                                            *)
(***************************************************************************)
C21_MatchIndexes ==
    search.method # "none" =>
        LET expected == acceptedIndexes(search.of, search.s, search.from)
        IN  /\ search.indexes = expected
            /\ search.method = "longestMatch" =>
                   search.gave = IF Len(expected) > 0 THEN expected[Len(expected)] ELSE Null
            /\ search.method = "shortestMatch" =>
                   search.gave = IF Len(expected) > 0 THEN expected[1] ELSE Null
            /\ search.method = "matches" =>
                   (search.gave = 1) = InSeq(Len(search.s), expected)

(***************************************************************************)
(* streams.ts: a TextInputStream used by its owner                         *)
(***************************************************************************)
\* the most marks kept at a time
MaxMarks == 2

\* the characters of the texts streamed: a plain one, '\n' and '\r'
StreamChars == {1, NewLine, CarriageReturn}

StreamTexts == UNION {[1..k -> StreamChars] : k \in 0..MaxLen}

InitStream ==
    /\ pc = "unopened"
    /\ NoScanner
    /\ NoStates
    /\ NoOperands
    /\ NoSets
    /\ NoDeclaration
    /\ NoLater

\* new TextInputStream(text)
Open(text) ==
    /\ pc = "unopened"
    /\ stream' = TextInputStream(text)
    /\ pc' = "open"
    /\ UNCHANGED <<streamFrame, streamCall, markHistory>>

\* a call on the open stream: the stream after it and what it returned
Called(op, after, gave) ==
    /\ pc = "open"
    /\ stream' = after
    /\ streamCall' = [op |-> op, before |-> stream, marked |-> markHistory, gave |-> gave]
    /\ UNCHANGED <<pc, streamFrame>>

\* stream.position()
Position ==
    /\ Called("position", stream, position(stream).index)
    /\ UNCHANGED markHistory

\* stream.hasMoreSymbols()
HasMoreSymbols ==
    /\ Called("hasMoreSymbols", stream, IF hasMoreSymbols(stream) THEN 1 ELSE 0)
    /\ UNCHANGED markHistory

\* stream.readNextSymbol()
ReadNextSymbol ==
    /\ Called("readNextSymbol", readNextSymbol(stream), nextSymbol(stream))
    /\ UNCHANGED markHistory

\* stream.mark()
Mark ==
    /\ Len(stream.markedPositions) < MaxMarks
    /\ Called("mark", mark(stream), 0)
    /\ markHistory' = Append(markHistory, [index |-> stream.index, line |-> stream.line,
                                 column |-> stream.column])

\* stream.unmark()
Unmark ==
    /\ Called("unmark", unmark(stream), 0)
    /\ markHistory' = SubSeq(markHistory, 1, Len(markHistory) - 1)

\* stream.reset()
Reset ==
    /\ Called("reset", reset(stream), 0)
    /\ markHistory' = SubSeq(markHistory, 1, Len(markHistory) - 1)

NextStream ==
    \/ \E text \in StreamTexts : Open(text)
    \/ Position
    \/ HasMoreSymbols
    \/ ReadNextSymbol
    \/ Mark
    \/ Unmark
    \/ Reset

SpecStream == InitStream /\ [][NextStream]_vars

\* the top of a stack of marks
Top(stack) == stack[Len(stack)]

\* the number of '\n' in p
RECURSIVE newLines(_)
newLines(p) ==
    IF p = <<>> THEN 0 ELSE (IF Head(p) = NewLine THEN 1 ELSE 0) + newLines(Tail(p))

\* the number of characters other than '\r' and '\n' in p after its last '\n'
RECURSIVE columnsOfLastLine(_)
columnsOfLastLine(p) ==
    IF p = <<>> \/ p[Len(p)] = NewLine THEN 0
    ELSE (IF p[Len(p)] = CarriageReturn THEN 0 ELSE 1)
         + columnsOfLastLine(SubSeq(p, 1, Len(p) - 1))

(***************************************************************************)
(* C22: the marks of a TextInputStream are a stack, last in first out:     *)
(* the stack holds the positions of the mark() calls not yet popped;       *)
(* reset() pops the most recent mark and puts index, line and column back  *)
(* to what they were at that mark(); unmark() pops it and does not move    *)
(* the stream; position(), hasMoreSymbols() and readNextSymbol() leave the *)
(* stack as it is.                                                         *)
(***************************************************************************)
C22_MarkStack ==
    /\ stream.markedPositions = markHistory
    /\ (streamCall.op = "reset" /\ Len(streamCall.marked) > 0) =>
           /\ position(stream) = Top(streamCall.marked)
           /\ stream.markedPositions = SubSeq(streamCall.marked, 1, Len(streamCall.marked) - 1)
    /\ (streamCall.op = "unmark") =>
           /\ position(stream) = position(streamCall.before)
           /\ stream.markedPositions = SubSeq(streamCall.marked, 1, Len(streamCall.marked) - 1)
    /\ (streamCall.op \in {"position", "hasMoreSymbols", "readNextSymbol"}) =>
           stream.markedPositions = streamCall.before.markedPositions

\* a reset that moves the stream back to the later of two different marks
C22_Witness ==
    /\ streamCall.op = "reset"
    /\ Len(streamCall.marked) = 2
    /\ streamCall.marked[1] # streamCall.marked[2]
    /\ position(streamCall.before) # Top(streamCall.marked)
    /\ position(stream) = Top(streamCall.marked)
    /\ Len(stream.markedPositions) = 1

(***************************************************************************)
(* C23: the position of a stream that has read the prefix p of its text    *)
(* has index the length of p, line 1 + the number of '\n' in p, and column *)
(* 1 + the number of characters other than '\r' and '\n' in p after its    *)
(* last '\n'; readNextSymbol() at the end of the text returns 0 and        *)
(* changes neither the position nor the marks.                             *)
(***************************************************************************)
C23_Position ==
    /\ LET p == SubSeq(stream.text, 1, stream.index)
       IN  /\ stream.index \in 0..Len(stream.text)
           /\ position(stream) = [index |-> Len(p), line |-> 1 + newLines(p),
                                  column |-> 1 + columnsOfLastLine(p)]
    /\ (streamCall.op = "readNextSymbol" /\ ~hasMoreSymbols(streamCall.before)) =>
           /\ streamCall.gave = 0
           /\ stream = streamCall.before

\* the text "\r\n" and a plain character, read to its end and read again
C23_Witness ==
    /\ stream.text = <<CarriageReturn, NewLine, 1>>
    /\ streamCall.op = "readNextSymbol"
    /\ ~hasMoreSymbols(streamCall.before)
    /\ Len(stream.markedPositions) > 0
    /\ position(stream) = [index |-> 3, line |-> 2, column |-> 2]

(***************************************************************************)
(* The scans that consume characters past what they yield                  *)
(***************************************************************************)
\* the number of characters of the text from index p on that advance a
\* matcher of the scanner's automaton, one after the other, from its start
advancing(p) ==
    Max({n \in 0..(Len(stream.text) - p) :
            runFrom(automaton, newMatcher(automaton), SubSeq(stream.text, p + 1, p + n), 1) # 0})

\* the token type that the state after the characters of w carries
recognizedAfter(w) == automaton[runFrom(automaton, newMatcher(automaton), w, 1)].recognizables[1]

(***************************************************************************)
(* C24: a scan that starts where one or more characters advance the        *)
(* automaton, none of them into an accepting state, and then a character   *)
(* has no transition or the text ends, yields the run of the advancing     *)
(* characters as an error token, and the next scan starts at the character *)
(* that had no transition.                                                 *)
(***************************************************************************)
C24_PartialMatchError ==
    \A k \in 1..Len(scanned) :
        LET p == scanned[k].position.index
        IN  (advancing(p) >= 1 /\ acceptedPrefixes(p) = {}) =>
                /\ scanned[k].tokenType = errorTokenType
                /\ scanned[k].lexeme = SubSeq(stream.text, p + 1, p + advancing(p))
                /\ k < Len(tokens) => tokens[k + 1].position.index = p + advancing(p)
                /\ (k = Len(tokens) /\ pc = "iterating") => stream.index = p + advancing(p)

\* a run cut by a character with no transition, that the next scan reads,
\* and a run of two characters cut by the end of the text
C24_Witness ==
    /\ \E k \in 1..(Len(scanned) - 1) :
           /\ advancing(scanned[k].position.index) >= 1
           /\ acceptedPrefixes(scanned[k].position.index) = {}
           /\ endOf(k) < Len(stream.text)
    /\ \E k \in 1..Len(scanned) :
           /\ advancing(scanned[k].position.index) >= 2
           /\ acceptedPrefixes(scanned[k].position.index) = {}
           /\ endOf(k) = Len(stream.text)

(***************************************************************************)
(* C25: a scan that has passed an accepting state and then consumed        *)
(* characters that advance the automaton without reaching another one      *)
(* yields the lexeme that ends at the last accepting position, with the    *)
(* token type of that state, and the stream is put back to just after the  *)
(* lexeme, where the next scan starts.                                     *)
(***************************************************************************)
C25_RewindToLastAccept ==
    \A k \in 1..Len(scanned) :
        LET p == scanned[k].position.index
        IN  (acceptedPrefixes(p) # {} /\ advancing(p) > Max(acceptedPrefixes(p))) =>
                /\ scanned[k].lexeme = SubSeq(stream.text, p + 1, p + Max(acceptedPrefixes(p)))
                /\ scanned[k].tokenType = recognizedAfter(scanned[k].lexeme)
                /\ k < Len(tokens) => tokens[k + 1].position.index = p + Max(acceptedPrefixes(p))
                /\ (k = Len(tokens) /\ pc = "iterating") =>
                       /\ stream.index = p + Max(acceptedPrefixes(p))
                       /\ finalReset.before.index = p + advancing(p)
                       /\ finalReset.after.index = p + Max(acceptedPrefixes(p))

\* a scan just ended that had consumed a character past its lexeme, which
\* is left to be read again
C25_Witness ==
    /\ pc = "iterating"
    /\ tokens # <<>>
    /\ acceptedPrefixes(tokens[Len(tokens)].position.index) # {}
    /\ advancing(tokens[Len(tokens)].position.index)
           > Max(acceptedPrefixes(tokens[Len(tokens)].position.index))
    /\ tokens[Len(tokens)].tokenType > 0
    /\ finalReset.before.index > stream.index
    /\ hasMoreSymbols(stream)

(***************************************************************************)
(* C26, as the spec states it: the last reset() of a scan leaves the       *)
(* position of the stream as it was.                                       *)
(***************************************************************************)
C26_FinalResetNoOp == finalReset.after = finalReset.before

(***************************************************************************)
(* C26, amended: the last reset() of a scan pops the outer mark and puts   *)
(* the stream at it, which is the end of the lexeme yielded: the stream    *)
(* moves back over the characters consumed since the last accepting state, *)
(* and stays where it is when there are none.                              *)
(***************************************************************************)
C26_FinalResetRewinds ==
    finalReset # NoFinalReset =>
        /\ Len(finalReset.marks) > 0
        /\ finalReset.after = finalReset.marks[Len(finalReset.marks)]
        /\ finalReset.after.index = finalReset.before.index - Len(finalReset.pending)
        /\ (finalReset.after = finalReset.before) = (finalReset.pending = <<>>)
        /\ pc = "iterating" =>
               /\ position(stream) = finalReset.after
               /\ stream.markedPositions
                      = SubSeq(finalReset.marks, 1, Len(finalReset.marks) - 1)
               /\ stream.index = endOf(Len(tokens))

\* a last reset() that moved the stream back
C26_Witness ==
    /\ pc = "iterating"
    /\ finalReset.pending # <<>>
    /\ finalReset.after.index < finalReset.before.index
    /\ position(stream) = finalReset.after

(***************************************************************************)
(* automata.ts: an AutomatonMathcer used by its owner                      *)
(***************************************************************************)
\* the automata matched against: those of the sample scanners and of the
\* RegExes searched, made by deterministic(), and the automata that
\* compositions begin with
MatchedAutomata ==
    {scannerAutomaton(declared) : declared \in Scanners} \cup {r.regex : r \in RegExes}
        \cup Samples

InitMatch ==
    /\ pc = "unmatched"
    /\ NoScanner
    /\ NoStates
    /\ NoOperands
    /\ NoSets
    /\ NoDeclaration
    /\ NoLater

\* a.newMatcher()
NewMatcher(a) ==
    /\ pc = "unmatched"
    /\ automaton' = a
    /\ matcher' = newMatcher(a)
    /\ matchCall' = [NoMatchCall EXCEPT !.op = "newMatcher", !.path = <<1>>]
    /\ pc' = "matching"
    /\ UNCHANGED matchFrame

\* matcher.match(c)
MatcherMatch(c) ==
    /\ pc = "matching"
    /\ Len(matchCall.path) <= MaxLen
    /\ matcher' = match(automaton, matcher, c)
    /\ matchCall' = [op |-> "match", before |-> matcher, char |-> c,
                     gave |-> doesMatch(automaton, matcher, c),
                     path |-> IF doesMatch(automaton, matcher, c)
                              THEN Append(matchCall.path, matcher'.current)
                              ELSE matchCall.path]
    /\ UNCHANGED <<pc, automaton, matchFrame>>

\* matcher.reset()
MatcherReset ==
    /\ pc = "matching"
    /\ matcher' = newMatcher(automaton)
    /\ matchCall' = [op |-> "reset", before |-> matcher, char |-> 0, gave |-> FALSE,
                     path |-> <<1>>]
    /\ UNCHANGED <<pc, automaton, matchFrame>>

NextMatch ==
    \/ \E a \in MatchedAutomata : NewMatcher(a)
    \/ \E c \in Chars : MatcherMatch(c)
    \/ MatcherReset

SpecMatch == InitMatch /\ [][NextMatch]_vars

\* the places of the final states in the path of states entered
finalsEntered == {i \in 1..Len(matchCall.path) : isFinal(automaton[matchCall.path[i]])}

(***************************************************************************)
(* C27: after reset() and any calls of match, recognized is the            *)
(* recognizables of the current state, and lastRecognized those of the     *)
(* final state entered last since the reset, or of the start state if      *)
(* none was; a match(c) that returns false leaves the current state,       *)
(* recognized and lastRecognized as they were.                             *)
(***************************************************************************)
C27_MatcherFields ==
    pc = "matching" =>
        /\ matcher.current = matchCall.path[Len(matchCall.path)]
        /\ matcher.recognized = automaton[matcher.current].recognizables
        /\ matcher.lastRecognized =
               IF finalsEntered = {} THEN automaton[1].recognizables
               ELSE automaton[matchCall.path[Max(finalsEntered)]].recognizables
        /\ (matchCall.op = "match" /\ ~matchCall.gave) => matcher = matchCall.before

\* a match that returned false at a transient state entered after a final one
C27_Witness ==
    /\ pc = "matching"
    /\ matchCall.op = "match"
    /\ ~matchCall.gave
    /\ Len(matchCall.path) >= 3
    /\ matcher.recognized = <<>>
    /\ matcher.lastRecognized # <<>>
    /\ matcher.current # 1

(***************************************************************************)
(* deterministic() of automata with self-loops and cycles                  *)
(***************************************************************************)
\* the triggers of the transitions of these automata
LoopTriggers == {range(0, 0), range(1, 1), range(0, 1)}

\* from.on(trigger, target) with a target made before: from itself, a state
\* that leads to from, or any other
Link(from, trigger, target) ==
    /\ pc = "building"
    /\ transitionCount < MaxTransitions
    /\ states' = [states EXCEPT ![from] = on(@, trigger, target, TRUE)]
    /\ UNCHANGED <<pc, scannerVars, opsVars, setVars, tokVars, laterVars, nfa, source, dfa,
                   dmatcher, cur>>

NextLoop ==
    \/ \E from \in 1..Len(states), trigger \in LoopTriggers, final \in BOOLEAN :
           On(from, trigger, final)
    \/ \E from \in 1..Len(states), trigger \in LoopTriggers, target \in 1..Len(states) :
           Link(from, trigger, target)
    \/ Create
    \/ Deterministic

SpecLoop == InitDet /\ [][NextLoop]_vars

\* the list closures of ClosureState.startStateOf(a) at its end: the
\* stateIndexes of the closure states made
closureKeys(a) == enclose(a, <<1>>, [keys |-> <<>>, heap |-> <<>>]).cl.keys

\* the number of times the loop of cloneNoDuplicates clones after the first
RECURSIVE dedupePasses(_, _)
dedupePasses(cloned, oldSize) ==
    IF Len(cloned) < oldSize
    THEN 1 + dedupePasses(cloneNoShallowDuplicates(reorganizeAll(cloned)), Len(cloned))
    ELSE 0

\* the number of times a.cloneNoDuplicates() clones
clonings(a) == 1 + dedupePasses(cloneNoShallowDuplicates(reorganizeAll(a)), Len(a))

\* 2 to the power n
RECURSIVE Pow2(_)
Pow2(n) == IF n = 0 THEN 1 ELSE 2 * Pow2(n - 1)

\* some state of automaton a leads back to itself
RECURSIVE leadsTo(_, _, _, _)
leadsTo(a, from, to, n) ==
    /\ n > 0
    /\ \E t \in 1..Len(a[from].transitions) :
           \/ a[from].transitions[t].target = to
           \/ leadsTo(a, a[from].transitions[t].target, to, n - 1)

hasCycle(a) == \E s \in 1..Len(a) : leadsTo(a, s, s, Len(a))

(***************************************************************************)
(* C28: deterministic() comes to its end for the automata with self-loops  *)
(* and cycles too: the closure states it makes have pairwise different     *)
(* sets of state indexes, so there are fewer of them than 2 to the number  *)
(* of states, and cloneNoDuplicates clones at most once per state.         *)
(***************************************************************************)
C28_DeterministicEnds ==
    pc = "matching" =>
        /\ dfa # <<>>
        /\ Let(cloneNoDuplicates(source), LAMBDA ndf :
           Let(closureKeys(ndf), LAMBDA keys :
               /\ \A i, j \in 1..Len(keys) : keys[i] = keys[j] => i = j
               /\ \A i \in 1..Len(keys) :
                      /\ keys[i] # <<>>
                      /\ \A k \in 1..Len(keys[i]) : keys[i][k] \in 1..Len(ndf)
                      /\ \A k \in 1..(Len(keys[i]) - 1) : keys[i][k] < keys[i][k + 1]
               /\ Len(keys) < Pow2(Len(ndf))
               /\ clonings(create(startStateOf(ndf), 1)) <= Len(keys)))
        /\ clonings(source) <= Len(source)

\* an automaton with a cycle whose deterministic automaton has one too, and
\* a closure of two states
C28_Witness ==
    /\ pc = "matching"
    /\ hasCycle(source)
    /\ hasCycle(dfa)
    /\ \E s \in 1..Len(source) : \E t \in 1..Len(source[s].transitions) :
           source[s].transitions[t].target = s
    /\ Let(closureKeys(cloneNoDuplicates(source)), LAMBDA keys :
           \E i \in 1..Len(keys) : Len(keys[i]) >= 2)

(***************************************************************************)
(* automata.ts: the getters finalStates and transientStates of Automaton   *)
(***************************************************************************)
\* get transientStates(): [...this._states], as indexes
getTransientStates(a) == [i \in 1..Len(a) |-> i]

\* get finalStates(): [...this._states], as indexes
getFinalStates(a) == [i \in 1..Len(a) |-> i]

\* the elements of an array
Elements(array) == {array[i] : i \in 1..Len(array)}

(***************************************************************************)
(* C29: the getter finalStates of an automaton returns the states with     *)
(* recognizables and no others, transientStates those without; no state    *)
(* is in both, and every state is in one of them.                          *)
(***************************************************************************)
C29_Partition ==
    nfa # <<>> =>
        /\ Elements(getFinalStates(nfa)) = {i \in 1..Len(nfa) : isFinal(nfa[i])}
        /\ Elements(getTransientStates(nfa)) = {i \in 1..Len(nfa) : isTransient(nfa[i])}
        /\ Elements(getFinalStates(nfa)) \cap Elements(getTransientStates(nfa)) = {}
        /\ Elements(getFinalStates(nfa)) \cup Elements(getTransientStates(nfa)) = 1..Len(nfa)

(***************************************************************************)
(* scanning.ts: two iterators of one Scanner.  A call of next() of an      *)
(* iterator runs to its yield before any other call begins, so a step is   *)
(* one call of next()                                                      *)
(***************************************************************************)
\* the most iterators made of the scanner, and the longest text streamed
MaxIterators == 2
MaxStreamed == 2

\* an iterator(stream) that reads the stream of the first iterator
firstStreamRef(streams) == 1

\* the stream given to the next iterator(stream): a stream of its own
newStreamRef(streams) == Len(streams) + 1

\* one iteration of the loop of ScanningMatcher.nextToken, for the matcher,
\* scan fields and stream x; broke tells that the loop ended with the break
scanSymbol(a, x) ==
    LET marked == mark(x.stream)
        symbol == nextSymbol(marked)
        read == readNextSymbol(marked)
        fires == doesMatch(a, x.matcher, symbol)
        matched == match(a, x.matcher, symbol)
        doesRecognize == Len(matched.recognized) > 0
        state1 == IF x.scan.state = stateStart
                  THEN (IF fires THEN stateConsumingGoodChars ELSE stateConsumingBadChars)
                  ELSE x.scan.state
        consume == consumesLookAhead(fires, state1)
        consumed == [x.scan EXCEPT !.state = state1, !.consumedChars = Append(@, symbol)]
        recognized == recognizeConsumedChars([consumed EXCEPT !.state = stateRecognizing],
                                             unmark(read))
    IN  [matcher |-> matched,
         scan |-> IF consume THEN (IF doesRecognize THEN recognized.sm ELSE consumed)
                  ELSE [x.scan EXCEPT !.state = state1],
         stream |-> IF consume THEN (IF doesRecognize THEN recognized.stream ELSE unmark(read))
                    ELSE reset(read),
         broke |-> ~consume]

\* the loop of ScanningMatcher.nextToken
RECURSIVE scanLoop(_, _)
scanLoop(a, x) ==
    IF hasMoreSymbols(x.stream) /\ ~x.broke
    THEN Let(scanSymbol(a, x), LAMBDA y : scanLoop(a, y))
    ELSE x

\* Scanner.next(stream, matcher): the matcher, scan fields and stream after
\* it, and the token it returns
scannerNext(a, x) ==
    Let(scanLoop(a, [matcher |-> newMatcher(a),
                     scan |-> [lexeme |-> <<>>, consumedChars |-> <<>>, state |-> stateStart],
                     stream |-> mark(x.stream),
                     broke |-> FALSE]), LAMBDA y :
    Let(IF y.scan.state # stateRecognizing
        THEN [r |-> recognizeConsumedChars(y.scan, y.stream), m |-> newMatcher(a)]
        ELSE [r |-> [sm |-> y.scan, stream |-> y.stream], m |-> y.matcher], LAMBDA z :
        [matcher |-> z.m,
         scan |-> z.r.sm,
         stream |-> reset(z.r.stream),
         token |-> [tokenType |-> IF Len(z.m.lastRecognized) > 0 THEN z.m.lastRecognized[1]
                                                                ELSE errorTokenType,
                    lexeme |-> z.r.sm.lexeme,
                    position |-> position(x.stream)]]))

\* next() of an iterator x, with its stream, matcher and scan fields: the
\* iterator after it, with the token yielded added to its tokens
iteratorNext(a, x) ==
    IF hasMoreSymbols(x.stream)
    THEN Let(scannerNext(a, x), LAMBDA y :
             [pc |-> "iterating", stream |-> y.stream, matcher |-> y.matcher, scan |-> y.scan,
              tokens |-> Append(x.tokens, y.token)])
    ELSE [x EXCEPT !.pc = "done",
                   !.tokens = Append(@, [tokenType |-> eofTokenType, lexeme |-> EOFLexeme,
                                         position |-> position(x.stream)])]

\* the texts streamed to the iterators
Streamed == Strings(MaxStreamed)

NoIterators == [streams |-> <<>>, matchers |-> <<>>, of |-> <<>>, built |-> <<>>]

InitTwo ==
    /\ pc = "shared"
    /\ tokenTypes \in Scanners
    /\ automaton = <<>>
    /\ stream = TextInputStream(<<>>)
    /\ matcher = NoMatcher
    /\ scan = NoScan
    /\ startPos = NoPosition
    /\ tokens = <<>>
    /\ depth0 = 0
    /\ emptyPops = 0
    /\ NoStates
    /\ NoOperands
    /\ NoSets
    /\ NoDeclaration
    /\ search = NoSearch
    /\ streamCall = NoStreamCall
    /\ markHistory = <<>>
    /\ finalReset = NoFinalReset
    /\ matchCall = NoMatchCall
    /\ iterators = NoIterators

\* scanner.iterator(new TextInputStream(text)): the generator is made, and
\* nothing of its body is run
NewIterator(text) ==
    /\ pc = "shared"
    /\ Len(iterators.of) < MaxIterators
    /\ iterators' = [iterators EXCEPT
           !.streams = Append(@, TextInputStream(text)),
           !.of = Append(@, [pc |-> "new", stream |-> newStreamRef(iterators.streams),
                             matcher |-> 0, tokens |-> <<>>])]
    /\ UNCHANGED <<pc, scannerVars, detVars, opsVars, setVars, tokVars, search, streamCall,
                   markHistory, scanHistory, matchCall>>

\* next() of iterator i: at the first call the body begins, the automaton
\* of the scanner is built if it was not, and a ScanningMatcher is made
NextOf(i) ==
    /\ pc = "shared"
    /\ iterators.of[i].pc # "done"
    /\ automaton' = IF automaton = <<>> THEN scannerAutomaton(tokenTypes) ELSE automaton
    /\ LET it == iterators.of[i]
           m == IF it.pc = "new" THEN Len(iterators.matchers) + 1 ELSE it.matcher
           own == IF it.pc = "new" THEN [matcher |-> newMatcher(automaton'), scan |-> NoScan]
                                   ELSE iterators.matchers[m]
           after == iteratorNext(automaton',
                                 [pc |-> it.pc, stream |-> iterators.streams[it.stream],
                                  matcher |-> own.matcher, scan |-> own.scan,
                                  tokens |-> it.tokens])
       IN  iterators' = [iterators EXCEPT
               !.built = IF automaton = <<>> THEN automaton' ELSE @,
               !.streams[it.stream] = after.stream,
               !.matchers = IF it.pc = "new"
                            THEN Append(@, [matcher |-> after.matcher, scan |-> after.scan])
                            ELSE [@ EXCEPT ![m] = [matcher |-> after.matcher,
                                                  scan |-> after.scan]],
               !.of[i] = [pc |-> after.pc, stream |-> it.stream, matcher |-> m,
                          tokens |-> after.tokens]]
    /\ UNCHANGED <<pc, tokenTypes, stream, matcher, scan, startPos, tokens, depth0, emptyPops,
                   detVars, opsVars, setVars, tokVars, search, streamCall, markHistory,
                   scanHistory, matchCall>>

NextTwo ==
    \/ \E text \in Streamed : NewIterator(text)
    \/ \E i \in 1..Len(iterators.of) : NextOf(i)

SpecTwo == InitTwo /\ [][NextTwo]_vars

\* the tokens that an iterator alone yields, from x on
RECURSIVE soloFrom(_, _)
soloFrom(a, x) == IF x.pc = "done" THEN x.tokens ELSE soloFrom(a, iteratorNext(a, x))

\* the tokens that the only iterator of a scanner yields for a text
solo(a, text) ==
    soloFrom(a, [pc |-> "new", stream |-> TextInputStream(text), matcher |-> newMatcher(a),
                 scan |-> NoScan, tokens |-> <<>>])

\* the text of stream k
textOf(k) == iterators.streams[k].text

(***************************************************************************)
(* C30: two iterators of one scanner over two streams, advanced in any     *)
(* order, each yield the tokens they would yield alone: each has a stream  *)
(* and a matcher of its own, and the automaton of the scanner, built at    *)
(* the first call of next(), is not changed by the scans.                  *)
(***************************************************************************)
C30_Iterators ==
    /\ iterators.built # <<>> => automaton = iterators.built
    /\ \A i \in 1..Len(iterators.of) :
           LET it == iterators.of[i]
           IN  /\ it.stream = i
               /\ it.pc # "new" =>
                      /\ it.matcher \in 1..Len(iterators.matchers)
                      /\ \A j \in 1..Len(iterators.of) :
                             (j # i /\ iterators.of[j].pc # "new")
                                 => iterators.of[j].matcher # it.matcher
                      /\ Len(it.tokens) <= Len(solo(automaton, textOf(i)))
                      /\ it.tokens = SubSeq(solo(automaton, textOf(i)), 1, Len(it.tokens))
                      /\ it.pc = "done" => it.tokens = solo(automaton, textOf(i))

\* two iterators over different texts that have each yielded tokens, and
\* neither has come to its end
C30_Witness ==
    /\ Len(iterators.of) = 2
    /\ textOf(1) # textOf(2)
    /\ iterators.of[1].pc = "iterating"
    /\ iterators.of[2].pc = "iterating"
    /\ Len(iterators.of[1].tokens) = 1
    /\ Len(iterators.of[2].tokens) >= 1
    /\ iterators.of[1].tokens # iterators.of[2].tokens
    /\ hasMoreSymbols(iterators.streams[1])
====
